---- MODULE Spec2Model ----
(***************************************************************************)
(* Race-performance predictor, pacing generator, training-plan generator   *)
(* and the plan regeneration gate of runnr.                                *)
(*                                                                         *)
(* Units.  Distances of activities are metres and moving times are seconds *)
(* as in StravaActivity.  Paces are min/km in fixed point, 1/1000 min/km.  *)
(* Plan distances are tenths of a kilometre (every plan distance the code  *)
(* produces is rounded to one decimal).  Race distances are tenths of a    *)
(* kilometre: 50, 100, 211, 422.  Dates are whole days; an activity holds  *)
(* its age in days at the fixed "now" of the run.                          *)
(***************************************************************************)
EXTENDS Integers, Sequences, FiniteSets, TLC

VARIABLES
    activities,     \* predictor: the activity list handed to calculateRacePredictions
    predictions,    \* predictor: the result of the last calculateRacePredictions call
    raceGoal,       \* plan generator: the RaceGoal of the generateTrainingPlan call
    trainingMetrics,\* plan generator: the metrics of the call (weeklyKilometers, metres)
    plan,           \* plan generator: the WeeklyPlan list built so far
    planPc,         \* plan generator: "idle", "loop" (in the week loop) or "done"
    pacingArgs,     \* pacing generator: the arguments of the generatePacingStrategy call
    splits,         \* pacing generator: the PacingSplit list built so far
    pacingStrategy, \* pacing generator: the returned PacingStrategy, NoStrategy before
    today,          \* regeneration gate: the current UTC calendar day
    trainingPlans,  \* regeneration gate: generatedDate of the goal's stored plans, oldest first
    clientPc,       \* regeneration gate: where each fetchAndGeneratePlan run stands
    existingPlan,   \* regeneration gate: generatedDate each run got from GET, Null if none
    generatedPlan,  \* regeneration gate: generatedDate of the plan each POST holds
    generations,    \* regeneration gate: generateTrainingPlan calls per calendar day
    requests,       \* regeneration gate: fetchAndGeneratePlan runs started so far
    metricsArgs,    \* detailed metrics: the arguments of the calculateDetailedMetrics call
    detailedMetrics,\* detailed metrics: the returned DetailedTrainingMetrics, NoDetailedMetrics before
    fitnessArgs,    \* fitness assessment: the metrics and race distance of the assessFitnessLevel call
    currentFitness, \* fitness assessment: the tier the last assessFitnessLevel call returned
    lastTrainingLoad,\* predictor: what analyzeTrainingLoad returned to the last call, NoTrainingLoad if none
    historyActs,    \* historical series: the activity list of the calculateHistoricalPredictions call
    historyPc,      \* historical series: "idle", "loop" (in the cutoff loop) or "done"
    historyWeeks,   \* historical series: the loop variable weeks
    rawData,        \* historical series: the data points pushed so far
    historicalPredictions \* historical series: the returned series, oldest point first

predVars == <<activities, predictions>>
planVars == <<raceGoal, trainingMetrics, plan, planPc>>
pacingVars == <<pacingArgs, splits, pacingStrategy>>
regenVars == <<today, trainingPlans, clientPc, existingPlan, generatedPlan,
               generations, requests>>
metricsVars == <<metricsArgs, detailedMetrics>>
fitnessVars == <<fitnessArgs, currentFitness>>
loadVars == <<lastTrainingLoad>>
historyVars == <<historyActs, historyPc, historyWeeks, rawData, historicalPredictions>>
vars == <<predVars, planVars, pacingVars, regenVars, metricsVars, fitnessVars, loadVars, historyVars>>

----------------------------------------------------------------------------
(* Generic helpers.  Array.filter is SelectSeq; Array.sort with a numeric  *)
(* comparator is SortSeq, which like it is stable.                         *)

Null == 0 - 1

Min(a, b) == IF a <= b THEN a ELSE b
Max(a, b) == IF a >= b THEN a ELSE b

RECURSIVE SumSeq(_)
SumSeq(s) == IF s = <<>> THEN 0 ELSE Head(s) + SumSeq(Tail(s))

\* Math.round(n / d) for n >= 0, d > 0: halves round up
RoundDiv(n, d) == (2 * n + d) \div (2 * d)

----------------------------------------------------------------------------
(* Predictor: src/unnamed/part_002 *)

\* thresholds of calculateRacePredictions
minRuns5K == 5
minRuns10K == 10
minRunsLong == 20

\* RACE distances handed to calculateDistancePrediction, in tenths of a km
RaceTenths == [_5K |-> 50, _10K |-> 100, halfMarathon |-> 211, marathon |-> 422]
DistanceKeys == {"_5K", "_10K", "halfMarathon", "marathon"}

\* length of the trailing window in days: 24 * 7
WindowDays == 24 * 7

\* (moving_time / 60) / (distance / 1000) in 1/1000 min/km
PaceOf(a) == (a.moving_time * 50000) \div (3 * a.distance)

\* a's pace is lower than b's (exact, by cross-multiplication)
FasterThan(a, b) == a.moving_time * b.distance < b.moving_time * a.distance

NumStr == <<"0", "1", "2", "3", "4">>

UnavailablePrediction(reason) ==
    [available |-> FALSE, time |-> Null, pace |-> Null, reason |-> reason]

getSimilarDistanceRange(target) ==
    IF target <= 50 THEN [min |-> target * 80, max |-> target * 120]
    ELSE IF target <= 100 THEN [min |-> target * 70, max |-> target * 130]
    ELSE IF target <= 211 THEN [min |-> target * 60, max |-> target * 140]
    ELSE [min |-> target * 50, max |-> target * 150]

\* The fixed "now" of a run, as a day number whose day 0 is a Sunday.
NowDay == 40 * 7 + 3

\* reduce((best, current) => pace(current) < pace(best) ? current : best)
RECURSIVE BestOf(_, _)
BestOf(best, rest) ==
    IF rest = <<>> THEN best
    ELSE BestOf(IF FasterThan(Head(rest), best) THEN Head(rest) ELSE best, Tail(rest))

BestRun(runs) == BestOf(Head(runs), Tail(runs))

\* Math.pow(ratio, 0.06) * extrapolationPenalty in 1/1000, tabulated from the
\* formula for the source distances (metres) and targets (tenths of a km)
\* that the modelled activities produce.
AdjustmentTable ==
    [d \in {3000, 4000, 5000, 6000, 7000, 8000, 10000, 21100} |->
        CASE d = 3000  -> [t50 |-> 1031, t100 |-> 1075, t211 |-> 1137, t422 |-> 1201]
          [] d = 4000  -> [t50 |-> 1013, t100 |-> 1057, t211 |-> 1111, t422 |-> 1174]
          [] d = 5000  -> [t50 |-> 1000, t100 |-> 1042, t211 |-> 1091, t422 |-> 1154]
          [] d = 6000  -> [t50 |-> 989,  t100 |-> 1031, t211 |-> 1078, t422 |-> 1137]
          [] d = 7000  -> [t50 |-> 980,  t100 |-> 1022, t211 |-> 1068, t422 |-> 1123]
          [] d = 8000  -> [t50 |-> 972,  t100 |-> 1013, t211 |-> 1060, t422 |-> 1111]
          [] d = 10000 -> [t50 |-> 959,  t100 |-> 1000, t211 |-> 1046, t422 |-> 1091]
          [] d = 21100 -> [t50 |-> 917,  t100 |-> 956,  t211 |-> 1000, t422 |-> 1042]]

getDistanceAdjustmentFactor(fromDistance, toDistance) ==
    LET row == AdjustmentTable[fromDistance]
    IN  CASE toDistance = 50  -> row.t50
          [] toDistance = 100 -> row.t100
          [] toDistance = 211 -> row.t211
          [] toDistance = 422 -> row.t422

\* validRuns of estimatePaceFromTraining: 1 km < distance < 50 km,
\* moving_time > 0, 2.5 < pace < 12, sorted by daysAgo ascending
ValidRuns(acts) ==
    SortSeq(
        SelectSeq(acts, LAMBDA a :
            /\ a.distance > 1000 /\ a.moving_time > 0 /\ a.distance < 50000
            /\ a.moving_time * 20 > 3 * a.distance        \* pace > 2.5
            /\ a.moving_time * 25 < 18 * a.distance),     \* pace < 12
        LAMBDA a, b : a.daysAgo < b.daysAgo)

\* ageWeight = Math.max(0.3, 1 - (daysAgo / 90) * 0.7) in 1/1000
AgeWeight(a) == Max(300, 1000 - (a.daysAgo * 700) \div 90)

\* Returns the extrapolated pace (1/1000 min/km), or Null
estimatePaceFromTraining(acts, targetDistance) ==
    LET validRuns == ValidRuns(acts)
    IN  IF Len(validRuns) = 0 THEN Null
        ELSE
        LET n == Len(validRuns)
            paces == SortSeq(validRuns, LAMBDA a, b : PaceOf(a) < PaceOf(b))
            q1 == PaceOf(paces[(n \div 4) + 1])
            q3 == PaceOf(paces[((3 * n) \div 4) + 1])
            iqr == q3 - q1
            \* pace >= q1 - 1.5 iqr  and  pace <= q3 + 1.5 iqr
            kept == SelectSeq(validRuns, LAMBDA r :
                        /\ 2 * PaceOf(r) >= 2 * q1 - 3 * iqr
                        /\ 2 * PaceOf(r) <= 2 * q3 + 3 * iqr)
            filteredRuns == IF Len(kept) = 0
                            THEN SubSeq(validRuns, 1, Min(5, n))
                            ELSE kept
            bestRun == BestRun(filteredRuns)
        IN  (PaceOf(bestRun) * getDistanceAdjustmentFactor(bestRun.distance, targetDistance))
                \div 1000

\* the Sunday-based week start of a run; setDate keeps the time of day
WeekStartKey(a) ==
    LET day == NowDay - a.daysAgo
    IN  <<day - (day % 7), a.tod>>

\* start time of a run as one number (whole days and time-of-day slot)
StartTime(a) == (NowDay - a.daysAgo) * 4 + a.tod

\* form trend of analyzeTrainingLoad over the last 10 runs by date
FormTrend(sortedByDate) ==
    IF Len(sortedByDate) >= 6
    THEN LET half == Len(sortedByDate) \div 2
             firstHalf == SubSeq(sortedByDate, 1, half)
             secondHalf == SubSeq(sortedByDate, half + 1, Len(sortedByDate))
             s1 == SumSeq([i \in 1..Len(firstHalf) |-> PaceOf(firstHalf[i])])
             s2 == SumSeq([i \in 1..Len(secondHalf) |-> PaceOf(secondHalf[i])])
             n1 == Len(firstHalf)
             n2 == Len(secondHalf)
             \* improvement = (avg1 - avg2) / avg1, avg1 = s1/n1, avg2 = s2/n2
             diff == s1 * n2 - s2 * n1
         IN  IF diff * 20 > s1 * n2 THEN 1
             ELSE IF diff * 20 < 0 - (s1 * n2) THEN 0 - 1
             ELSE 0
    ELSE 0

\* trainingStress is in 1/1000, weeklyKilometers in metres, trainingFrequency
\* in quarters (weeksWithRuns.size, to be divided by totalWeeks = 4)
analyzeTrainingLoad(acts) ==
    LET recentRuns == SelectSeq(acts, LAMBDA a : a.daysAgo <= 28 /\ a.type = "Run")
        longerTermRuns == SelectSeq(acts, LAMBDA a : a.daysAgo <= 84 /\ a.type = "Run")
        weeklyKilometers ==
            SumSeq([i \in 1..Len(recentRuns) |-> recentRuns[i].distance]) \div 4
        weeksWithRuns == {WeekStartKey(recentRuns[i]) : i \in 1..Len(recentRuns)}
        byDate == SortSeq(longerTermRuns, LAMBDA a, b : StartTime(a) < StartTime(b))
        sortedByDate == SubSeq(byDate, Max(1, Len(byDate) - 9), Len(byDate))
        formTrend == FormTrend(sortedByDate)
        trainingStress ==
            Min(1000, weeklyKilometers \div 30
                        + Cardinality(weeksWithRuns) * 50 + formTrend * 100)
    IN  [weeklyKilometers |-> weeklyKilometers,
         trainingFrequency |-> Cardinality(weeksWithRuns),
         formTrend |-> formTrend,
         trainingStress |-> trainingStress,
         recentRunCount |-> Len(recentRuns)]

\* mutant: the bounds of the window are left out
SimilarRunsStrictBounds(acts, distanceKm) ==
    LET similarDistances == getSimilarDistanceRange(distanceKm)
    IN  SelectSeq(acts, LAMBDA a :
            /\ a.distance > similarDistances.min
            /\ a.distance < similarDistances.max
            /\ a.moving_time > 0)

\* lines 71-76: the runs of a distance similar to the target
SimilarRuns(acts, distanceKm) ==
    LET similarDistances == getSimilarDistanceRange(distanceKm)
    IN  SelectSeq(acts, LAMBDA a :
            /\ a.distance >= similarDistances.min
            /\ a.distance <= similarDistances.max
            /\ a.moving_time > 0)

\* lines 78-88: predictedPace before the adjustments, Null if none
RawPredictedPace(acts, distanceKm) ==
    LET similarRuns == SimilarRuns(acts, distanceKm)
    IN  IF Len(similarRuns) > 0
        THEN PaceOf(BestRun(similarRuns))
        ELSE estimatePaceFromTraining(acts, distanceKm)

\* lines 94-98: trainingAdjustment 1 + (trainingStress - 0.5) * 0.05, then
\* formAdjustment
AdjustedPace(rawPace, trainingLoad) ==
    LET adjusted == (rawPace * (20000 + trainingLoad.trainingStress - 500)) \div 20000
        formAdjustment == IF trainingLoad.formTrend = 1 THEN 98
                          ELSE IF trainingLoad.formTrend = 0 - 1 THEN 102
                          ELSE 100
    IN  (adjusted * formAdjustment) \div 100

\* time is in 1/1000 min, pace in 1/1000 min/km
calculateDistancePrediction(acts, distanceKm) ==
    LET trainingLoad == analyzeTrainingLoad(acts)
        rawPace == RawPredictedPace(acts, distanceKm)
    IN  IF rawPace = Null \/ rawPace = 0
        THEN UnavailablePrediction("Insufficient data for prediction")
        ELSE
        LET predictedPace == AdjustedPace(rawPace, trainingLoad)
            predictedTime == (predictedPace * distanceKm) \div 10
        IN  [available |-> TRUE, time |-> predictedTime, pace |-> predictedPace,
             reason |-> ""]

\* mutant: the gate compares with = instead of >=
GateByRunCountExact(p, count, minRuns, reason) ==
    IF count = minRuns THEN [p EXCEPT !.available = TRUE]
    ELSE [p EXCEPT !.reason = reason]

\* the per-distance gate of calculateRacePredictions (lines 52-64)
GateByRunCount(p, count, minRuns, reason) ==
    IF count >= minRuns THEN [p EXCEPT !.available = TRUE]
    ELSE [p EXCEPT !.reason = reason]

\* mutant: the filter forgets the activity type
RecentActivitiesAnyType(acts) ==
    SelectSeq(acts, LAMBDA a : a.daysAgo <= WindowDays)

\* activities of type Run started within the trailing 24 weeks
RecentActivities(acts) ==
    SelectSeq(acts, LAMBDA a : a.daysAgo <= WindowDays /\ a.type = "Run")

\* no calculateDistancePrediction call was made
NoTrainingLoad == [weeklyKilometers |-> Null, trainingFrequency |-> Null, formTrend |-> Null, trainingStress |-> Null, recentRunCount |-> Null]

\* line 70: the trainingLoad of the calculateDistancePrediction calls that
\* calculateRacePredictions(acts) makes (lines 46-49)
TrainingLoadOf(acts) ==
    IF Len(RecentActivities(acts)) < minRuns5K THEN NoTrainingLoad
    ELSE analyzeTrainingLoad(RecentActivities(acts))

calculateRacePredictions(acts) ==
    LET recentActivities == RecentActivities(acts)
        count == Len(recentActivities)
    IN  IF count < minRuns5K
        THEN LET reason == "Need at least 5 runs in the last 24 weeks. Currently have "
                            \o NumStr[count + 1] \o "."
             IN  [k \in DistanceKeys |-> UnavailablePrediction(reason)]
        ELSE
        [_5K |-> GateByRunCount(calculateDistancePrediction(recentActivities, 50),
                    count, minRuns5K, "Need 5 runs for 5K prediction"),
         _10K |-> GateByRunCount(calculateDistancePrediction(recentActivities, 100),
                    count, minRuns10K, "Need 10 runs for 10K prediction"),
         halfMarathon |-> GateByRunCount(calculateDistancePrediction(recentActivities, 211),
                    count, minRunsLong, "Need 20 runs for half marathon prediction"),
         marathon |-> GateByRunCount(calculateDistancePrediction(recentActivities, 422),
                    count, minRunsLong, "Need 20 runs for marathon prediction")]

----------------------------------------------------------------------------
(* Predictor: the activity lists explored *)

\* largest activity list handed to the predictor
MaxActivities == 21

\* most activities of a list that are no run of the trailing 24 weeks
MaxOther == 2

\* The activities a sync can add.  Each has its own start day, so that the
\* list, which the database returns ordered by start date (newest first),
\* has one order.
ActivityKinds ==
    { [type |-> "Run",  daysAgo |-> 3,   tod |-> 0, distance |-> 5000,  moving_time |-> 1500],
      [type |-> "Run",  daysAgo |-> 10,  tod |-> 1, distance |-> 500,   moving_time |-> 150],
      [type |-> "Ride", daysAgo |-> 12,  tod |-> 0, distance |-> 20000, moving_time |-> 2400],
      [type |-> "Run",  daysAgo |-> 60,  tod |-> 0, distance |-> 10000, moving_time |-> 3300],
      [type |-> "Run",  daysAgo |-> 200, tod |-> 0, distance |-> 21100, moving_time |-> 7000] }

\* orderBy: { startDate: 'desc' }: a joins the list after every activity
\* that is not older than it
RECURSIVE InsertByDate(_, _)
InsertByDate(a, acts) ==
    IF acts = <<>> THEN <<a>>
    ELSE IF a.daysAgo < Head(acts).daysAgo THEN <<a>> \o acts
    ELSE <<Head(acts)>> \o InsertByDate(a, Tail(acts))

\* One more activity is synced and the predictions are requested again.
Predict(a) ==
    /\ Len(activities) < MaxActivities
    /\ activities' = InsertByDate(a, activities)
    /\ Len(activities') - Len(RecentActivities(activities')) <= MaxOther
    /\ predictions' = calculateRacePredictions(activities')
    /\ lastTrainingLoad' = TrainingLoadOf(activities')
    /\ UNCHANGED <<planVars, pacingVars, regenVars, metricsVars, fitnessVars, historyVars>>

PredictNext == \E a \in ActivityKinds : Predict(a)

\* largest list of the runs around the similarity windows
MaxSimilarRuns == 7

\* Runs of the last weeks at and around the bounds of the similarity
\* windows: 4 and 6 km bound the 5K window, 7 km is the lower bound of the
\* 10K window, 21.1 km the lower bound of the marathon window, 3 km lies in
\* no window, and one 5 km run has no moving time.  The runs of days 2
\* and 3 fall in one calendar week and started at different times of day.
SimilarRunKinds ==
    { [type |-> "Run", daysAgo |-> 2,  tod |-> 0, distance |-> 4000,  moving_time |-> 1200],
      [type |-> "Run", daysAgo |-> 3,  tod |-> 1, distance |-> 5000,  moving_time |-> 1500],
      [type |-> "Run", daysAgo |-> 5,  tod |-> 0, distance |-> 6000,  moving_time |-> 1620],
      [type |-> "Run", daysAgo |-> 9,  tod |-> 0, distance |-> 3000,  moving_time |-> 780],
      [type |-> "Run", daysAgo |-> 12, tod |-> 0, distance |-> 7000,  moving_time |-> 2240],
      [type |-> "Run", daysAgo |-> 15, tod |-> 0, distance |-> 5000,  moving_time |-> 0],
      [type |-> "Run", daysAgo |-> 20, tod |-> 0, distance |-> 21100, moving_time |-> 7000] }

\* One more of these runs is synced and the predictions are requested again.
PredictSimilar(a) ==
    /\ Len(activities) < MaxSimilarRuns
    /\ activities' = InsertByDate(a, activities)
    /\ predictions' = calculateRacePredictions(activities')
    /\ lastTrainingLoad' = TrainingLoadOf(activities')
    /\ UNCHANGED <<planVars, pacingVars, regenVars, metricsVars, fitnessVars, historyVars>>

SimilarNext == \E a \in SimilarRunKinds : PredictSimilar(a)


----------------------------------------------------------------------------
(* Plan generator: src/src/lib/training-plan.ts *)

\* RACE_DISTANCES in tenths of a km
RACE_DISTANCES ==
    [d \in {"5K", "10K", "Half Marathon", "Marathon"} |->
        CASE d = "5K" -> 50 [] d = "10K" -> 100
          [] d = "Half Marathon" -> 211 [] d = "Marathon" -> 422]

\* maxWeeklyKm of generateWeeklyPlan in tenths of a km
maxWeeklyKm ==
    [d \in {"5K", "10K", "Half Marathon", "Marathon"} |->
        CASE d = "5K" -> 450 [] d = "10K" -> 650
          [] d = "Half Marathon" -> 850 [] d = "Marathon" -> 1100]

\* reasonableMax of generateTrainingPlan in metres
reasonableMax ==
    [d \in {"5K", "10K", "Half Marathon", "Marathon"} |->
        CASE d = "5K" -> 35000 [] d = "10K" -> 50000
          [] d = "Half Marathon" -> 70000 [] d = "Marathon" -> 90000]

days == <<"Monday", "Tuesday", "Wednesday", "Thursday", "Friday", "Saturday", "Sunday">>

\* Math.round(x * 10) of a double x.  The product of a one-decimal number and
\* 0.85 or 0.35 that is an exact half in the rationals falls below the half
\* in IEEE-754 arithmetic for the weekly volumes (tenths of a km) listed
\* here, and Math.round then rounds down; everywhere else in 0..1300 the
\* double and the rational rounding agree.
RecoveryHalfDown == {130, 210, 470, 570, 790, 890, 990, 1090, 1190}
LongRunHalfDown ==
    {30, 70, 170, 230, 290, 330, 450, 510, 530, 610, 630, 710, 730, 850, 970,
     1010, 1070, 1110, 1170, 1210, 1270}

\* Math.round(weekKilometers * 0.35 * 10), in tenths of a km
LongRunDistance(weekKilometers) ==
    IF weekKilometers \in LongRunHalfDown
    THEN RoundDiv(weekKilometers * 35, 100) - 1
    ELSE RoundDiv(weekKilometers * 35, 100)

\* Math.round(((weekKilometers - weekKilometers * 0.35) / otherRunDays) * 10)
OtherRunDistance(weekKilometers, otherRunDays) ==
    IF otherRunDays > 0
    THEN IF weekKilometers = 870 /\ otherRunDays = 3
         THEN RoundDiv(weekKilometers * 65, 100 * otherRunDays) - 1
         ELSE RoundDiv(weekKilometers * 65, 100 * otherRunDays)
    ELSE 0

\* the built-in run days of generateWorkout (0 = Monday)
DefaultRunDays(runsPerWeek) ==
    CASE runsPerWeek = 2 -> <<2, 6>>
      [] runsPerWeek = 3 -> <<1, 4, 6>>
      [] runsPerWeek = 4 -> <<1, 2, 5, 6>>
      [] runsPerWeek = 5 -> <<1, 2, 3, 5, 6>>
      [] runsPerWeek = 6 -> <<1, 2, 3, 4, 5, 6>>
      [] OTHER -> <<0, 1, 2, 3, 4, 5, 6>>

\* customTrainingDays is <<>> when the goal has none
RunDays(runsPerWeek, customTrainingDays) ==
    IF Len(customTrainingDays) > 0 THEN customTrainingDays
    ELSE DefaultRunDays(runsPerWeek)

Includes(s, x) == \E i \in DOMAIN s : s[i] = x

IsQualityDay(dayOfWeek, runsPerWeek, customTrainingDays) ==
    IF Len(customTrainingDays) > 0
    THEN LET runDays == customTrainingDays
             qualityIndices ==
                 IF runsPerWeek = 2 THEN {0}
                 ELSE IF runsPerWeek = 3 THEN {1}
                 ELSE IF runsPerWeek >= 4
                      THEN {Len(runDays) \div 3, (Len(runDays) * 2) \div 3}
                      ELSE {}
         IN  \E i \in qualityIndices : i + 1 <= Len(runDays) /\ runDays[i + 1] = dayOfWeek
    ELSE \/ runsPerWeek = 2 /\ dayOfWeek = 2
         \/ runsPerWeek = 3 /\ dayOfWeek = 4
         \/ runsPerWeek >= 4 /\ (dayOfWeek = 2 \/ dayOfWeek = 5)

\* mutant: 800 m repetitions only below 10 km (< for <=)
IntervalDistanceBelow(raceDistance) ==
    IF RACE_DISTANCES[raceDistance] < 100 THEN "800m" ELSE "1km"

\* lines 378-380: intervalDistance of the Intervals description
IntervalDistance(raceDistance) ==
    IF RACE_DISTANCES[raceDistance] <= 100 THEN "800m" ELSE "1km"

\* A Workout; distance is in tenths of a km, Null when the workout has none.
\* Of the description the repetition length of an Intervals workout is
\* kept (intervalDistance, "" for every other type).
generateWorkout(phase, dayOfWeek, weekKilometers, raceDistance, runsPerWeek, customTrainingDays) ==
    LET runDays == RunDays(runsPerWeek, customTrainingDays)
        longRunDay == runDays[Len(runDays)]
        otherRunDays == Len(runDays) - 1
    IN  IF ~ Includes(runDays, dayOfWeek)
        THEN [day |-> days[dayOfWeek + 1], type |-> "Rest", distance |-> Null,
              intensity |-> "Low", intervalDistance |-> ""]
        ELSE IF dayOfWeek = longRunDay
        THEN [day |-> days[dayOfWeek + 1], type |-> "Long Run",
              distance |-> LongRunDistance(weekKilometers),
              intensity |-> IF phase = "peak" THEN "Medium" ELSE "Low",
              intervalDistance |-> ""]
        ELSE IF IsQualityDay(dayOfWeek, runsPerWeek, customTrainingDays)
        THEN [day |-> days[dayOfWeek + 1],
              type |-> CASE phase = "base" -> "Easy Run"
                         [] phase = "build" -> "Tempo Run"
                         [] phase = "peak" -> "Intervals"
                         [] OTHER -> "Easy Run",
              distance |-> OtherRunDistance(weekKilometers, otherRunDays),
              intensity |-> IF phase \in {"build", "peak"} THEN "High" ELSE "Low",
              intervalDistance |-> IF phase = "peak" THEN IntervalDistance(raceDistance)
                                   ELSE ""]
        ELSE [day |-> days[dayOfWeek + 1], type |-> "Easy Run",
              distance |-> OtherRunDistance(weekKilometers, otherRunDays),
              intensity |-> "Low", intervalDistance |-> ""]

\* Math.ceil(n / d) for n >= 0, d > 0
CeilDiv(n, d) == (n + d - 1) \div d

\* mutant: the peak and build windows are swapped (0.6 W for peak, 0.3 W for build)
PhaseOfSwappedWindows(weeksRemaining, weeksUntilRace) ==
    IF weeksRemaining <= 2 THEN "taper"
    ELSE IF weeksRemaining <= CeilDiv(weeksUntilRace * 6, 10) THEN "peak"
    ELSE IF weeksRemaining <= CeilDiv(weeksUntilRace * 3, 10) THEN "build"
    ELSE "base"

\* the training phase of generateWeeklyPlan
PhaseOf(weeksRemaining, weeksUntilRace) ==
    IF weeksRemaining <= 2 THEN "taper"
    ELSE IF weeksRemaining <= CeilDiv(weeksUntilRace * 3, 10) THEN "peak"
    ELSE IF weeksRemaining <= CeilDiv(weeksUntilRace * 6, 10) THEN "build"
    ELSE "base"

\* truthiness of previousWeekKilometers: undefined and 0 are falsy
Truthy(x) == x # Null /\ x # 0

\* mutant: week 1 starts at the full base instead of 80% of it
WeeklyKilometersFullStart(isRecoveryWeek, phase, weeksRemaining, baseWeeklyKilometers, previousWeekKilometers, raceDistance) ==
    IF isRecoveryWeek /\ Truthy(previousWeekKilometers)
    THEN IF previousWeekKilometers \in RecoveryHalfDown
         THEN RoundDiv(previousWeekKilometers * 85, 100) - 1
         ELSE RoundDiv(previousWeekKilometers * 85, 100)
    ELSE IF phase = "taper"
    THEN RoundDiv(baseWeeklyKilometers * (IF weeksRemaining = 2 THEN 7 ELSE 5), 1000)
    ELSE IF Truthy(previousWeekKilometers)
    THEN RoundDiv(Min(previousWeekKilometers * 110, maxWeeklyKm[raceDistance] * 100), 100)
    ELSE RoundDiv(baseWeeklyKilometers * 10, 1000)

\* mutant: the taper factors are swapped (0.5 two weeks out, 0.7 in the final week)
WeeklyKilometersTaperSwapped(isRecoveryWeek, phase, weeksRemaining, baseWeeklyKilometers, previousWeekKilometers, raceDistance) ==
    IF isRecoveryWeek /\ Truthy(previousWeekKilometers)
    THEN IF previousWeekKilometers \in RecoveryHalfDown
         THEN RoundDiv(previousWeekKilometers * 85, 100) - 1
         ELSE RoundDiv(previousWeekKilometers * 85, 100)
    ELSE IF phase = "taper"
    THEN RoundDiv(baseWeeklyKilometers * (IF weeksRemaining = 2 THEN 5 ELSE 7), 1000)
    ELSE IF Truthy(previousWeekKilometers)
    THEN RoundDiv(Min(previousWeekKilometers * 110, maxWeeklyKm[raceDistance] * 100), 100)
    ELSE RoundDiv(baseWeeklyKilometers * 8, 1000)

\* the week's volume before the workouts are generated, in tenths of a km;
\* baseWeeklyKilometers is in metres
WeeklyKilometers(isRecoveryWeek, phase, weeksRemaining, baseWeeklyKilometers, previousWeekKilometers, raceDistance) ==
    IF isRecoveryWeek /\ Truthy(previousWeekKilometers)
    THEN IF previousWeekKilometers \in RecoveryHalfDown
         THEN RoundDiv(previousWeekKilometers * 85, 100) - 1
         ELSE RoundDiv(previousWeekKilometers * 85, 100)
    ELSE IF phase = "taper"
    THEN RoundDiv(baseWeeklyKilometers * (IF weeksRemaining = 2 THEN 7 ELSE 5), 1000)
    ELSE IF Truthy(previousWeekKilometers)
    THEN RoundDiv(Min(previousWeekKilometers * 110, maxWeeklyKm[raceDistance] * 100), 100)
    ELSE RoundDiv(baseWeeklyKilometers * 8, 1000)

\* workout.distance || 0
DistanceOrZero(w) == IF w.distance = Null THEN 0 ELSE w.distance

\* mutant: the reduce stops one workout early
ActualTotalKilometersShort(workouts) ==
    SumSeq([d \in 1..6 |-> DistanceOrZero(workouts[d])])

\* workouts.reduce((sum, workout) => sum + (workout.distance || 0), 0),
\* rounded to one decimal
ActualTotalKilometers(workouts) ==
    SumSeq([d \in 1..7 |-> DistanceOrZero(workouts[d])])

\* mutant: the race week is taken to be the week after the last
IsRaceWeekOffByOne(weeksRemaining) == weeksRemaining = 0

\* if (weeksRemaining === 1)
IsRaceWeek(weeksRemaining) == weeksRemaining = 1

\* mutant: a week with exactly 3 weeks remaining can be a recovery week
IsRecoveryWeekLate(weekNumber, weeksRemaining) ==
    weekNumber % 4 = 0 /\ weeksRemaining >= 3

\* line 446: isRecoveryWeek
IsRecoveryWeek(weekNumber, weeksRemaining) ==
    weekNumber % 4 = 0 /\ weeksRemaining > 3

\* mutant: the first week starts a week after the start date
WeekStartDateNextWeek(planStartDate, weekNumber) ==
    (planStartDate + weekNumber * 14) \div 2

\* lines 438-443 and 552: weekStartDate, the UTC calendar day (a day
\* number) of the start date plus (weekNumber - 1) weeks
WeekStartDate(planStartDate, weekNumber) ==
    (planStartDate + (weekNumber - 1) * 14) \div 2

\* A WeeklyPlan without notes.  phase and weeklyKilometers are the
\* locals of generateWeeklyPlan and baseWeeklyKilometers (metres) is its
\* argument, kept to state properties of them.
generateWeeklyPlan(weekNumber, weeksUntilRace, baseWeeklyKilometers, raceDistance, runsPerWeek, customTrainingDays, previousWeekKilometers, planStartDate) ==
    LET weeksRemaining == weeksUntilRace - weekNumber + 1
        isRecoveryWeek == IsRecoveryWeek(weekNumber, weeksRemaining)
        phase == PhaseOf(weeksRemaining, weeksUntilRace)
        phaseFocus == CASE phase = "taper" -> "Taper & Recovery"
                        [] phase = "peak" -> "Race-Specific Training"
                        [] phase = "build" -> "Building Endurance & Speed"
                        [] OTHER -> "Building Base Fitness"
        focus == IF isRecoveryWeek /\ Truthy(previousWeekKilometers)
                 THEN "Recovery Week" ELSE phaseFocus
        weeklyKilometers ==
            WeeklyKilometers(isRecoveryWeek, phase, weeksRemaining,
                baseWeeklyKilometers, previousWeekKilometers, raceDistance)
        generated == [d \in 1..7 |->
            generateWorkout(phase, d - 1, weeklyKilometers, raceDistance,
                            runsPerWeek, customTrainingDays)]
        raceDay == [day |-> "Sunday", type |-> "Race Day",
                    distance |-> RACE_DISTANCES[raceDistance], intensity |-> "High",
                    intervalDistance |-> ""]
        workouts == IF IsRaceWeek(weeksRemaining)
                    THEN [generated EXCEPT ![7] = raceDay]
                    ELSE generated
        actualTotalKilometers == ActualTotalKilometers(workouts)
    IN  [weekNumber |-> weekNumber,
         weekStartDate |-> WeekStartDate(planStartDate, weekNumber),
         focus |-> focus,
         totalKilometers |-> actualTotalKilometers,
         workouts |-> workouts,
         phase |-> phase,
         weeklyKilometers |-> weeklyKilometers,
         baseWeeklyKilometers |-> baseWeeklyKilometers]

\* lines 192-199: dates are counted in half days; diffDays is rounded up
\* to whole days, then to whole weeks
getWeeksUntilRace(raceDate, startDate) ==
    LET diffTime == raceDate - startDate
        diffDays == CeilDiv(diffTime, 2)
    IN  CeilDiv(diffDays, 7)

\* mutant: the 12 km starting point for low volumes is left out
BaseWeeklyKilometersNoFloor(weeklyKilometers, distance) ==
    IF weeklyKilometers > reasonableMax[distance] THEN reasonableMax[distance]
    ELSE weeklyKilometers

\* baseWeeklyKilometers of generateTrainingPlan, in metres
BaseWeeklyKilometers(weeklyKilometers, distance) ==
    LET floored == IF weeklyKilometers < 10000 THEN 12000 ELSE weeklyKilometers
    IN  IF floored > reasonableMax[distance] THEN reasonableMax[distance]
        ELSE floored

----------------------------------------------------------------------------
(* Plan generator: the calls explored *)

\* longest plan, in weeks
MaxWeeks == 16

\* weekly distances (metres) of the runner
WeeklyKilometerInputs == {4000, 12300, 23700, 46200, 95000}

\* training-day selections: none (<<>>), and selections the day picker
\* produces (sorted, at least two days)
TrainingDayInputs ==
    { <<>>, <<0, 2, 4, 6>>, <<0, 2, 4>>, <<1, 3>>, <<0, 1, 3, 4, 6>>,
      <<0, 1, 2, 3, 4, 5>> }

\* A RaceGoal with the weeksUntilRace that generateTrainingPlan derives from
\* its dates (line 568).  Dates are in half days: an even date is a
\* midnight (a date without time), an odd one a noon.
RaceGoalOf(distance, runsPerWeek, trainingDays, startDate, date) ==
    [distance |-> distance, runsPerWeek |-> runsPerWeek, trainingDays |-> trainingDays,
     startDate |-> startDate, date |-> date,
     weeksUntilRace |-> getWeeksUntilRace(date, startDate)]

NoGoal == RaceGoalOf("5K", 4, <<>>, 0, 0)

NoMetrics == [weeklyKilometers |-> 0]

\* start dates of a goal: a date without time, and a time of day
StartDateInputs == {0, 1}

\* latest race date, in half days after day 0
MaxRaceDate == 58

\* one iteration of the week loop: lines 599-615
GenerateWeek ==
    /\ planPc = "loop"
    /\ Len(plan) < raceGoal.weeksUntilRace
    /\ LET week == Len(plan) + 1
           previousWeekKm == IF week > 1 THEN plan[week - 1].totalKilometers ELSE Null
       IN  plan' = Append(plan,
                generateWeeklyPlan(week, raceGoal.weeksUntilRace,
                    BaseWeeklyKilometers(trainingMetrics.weeklyKilometers,
                                         raceGoal.distance),
                    raceGoal.distance, raceGoal.runsPerWeek, raceGoal.trainingDays,
                    previousWeekKm, raceGoal.startDate))
    /\ UNCHANGED <<raceGoal, trainingMetrics, planPc>>
    /\ UNCHANGED <<predVars, pacingVars, regenVars, metricsVars, fitnessVars, loadVars, historyVars>>

\* the loop ends and the plan is returned: lines 693-702
ReturnPlan ==
    /\ planPc = "loop"
    /\ Len(plan) >= raceGoal.weeksUntilRace
    /\ planPc' = "done"
    /\ UNCHANGED <<raceGoal, trainingMetrics, plan>>
    /\ UNCHANGED <<predVars, pacingVars, regenVars, metricsVars, fitnessVars, loadVars, historyVars>>

PlanNext == GenerateWeek \/ ReturnPlan

----------------------------------------------------------------------------
(* Pacing generator: generatePacingStrategy, src/unnamed/part_002 239-346. *)
(* raceDistanceKm is in tenths of a km, predictedPace in 1/1000 min/km;    *)
(* split paces are in 1/1000000 min/km and times in 1/1000000 min, each    *)
(* rounded to the nearest unit where the code computes in doubles.         *)

\* the race distances the page passes: part_009 192-197
RaceDistanceKmInputs == {50, 100, 211, 422}

Strategies == {"even", "negative", "positive"}

\* predicted paces, 3:30 to 7:00 min/km
PredictedPaceInputs == {3500, 4250, 5000, 6000, 7000}

\* Math.ceil(raceDistanceKm)
SplitCount(raceDistanceKm) == CeilDiv(raceDistanceKm, 10)

\* mutant: the last split is a whole kilometre as well
SplitDistanceWhole(i, raceDistanceKm) == 10

\* line 252: i <= Math.floor(raceDistanceKm) ? 1 : raceDistanceKm % 1
SplitDistance(i, raceDistanceKm) ==
    IF i <= raceDistanceKm \div 10 THEN 10 ELSE raceDistanceKm % 10

\* mutant: the first half ends before the middle split (< for <=)
StrategyPaceStrictHalf(i, n, predictedPace, strategy) ==
    IF strategy = "negative"
    THEN IF 2 * i < n THEN predictedPace * 1020 ELSE predictedPace * 980
    ELSE IF strategy = "positive"
    THEN IF 2 * i < n THEN predictedPace * 980 ELSE predictedPace * 1020
    ELSE predictedPace * 1000

\* lines 254-279: the pace of split i under the strategy; progressRatio is
\* i / n, so progressRatio <= 0.5 is 2i <= n
StrategyPace(i, n, predictedPace, strategy) ==
    IF strategy = "negative"
    THEN IF 2 * i <= n THEN predictedPace * 1020 ELSE predictedPace * 980
    ELSE IF strategy = "positive"
    THEN IF 2 * i <= n THEN predictedPace * 980 ELSE predictedPace * 1020
    ELSE predictedPace * 1000

\* lines 281-292: fatigueRatio > 0.75 is 4i > 3n, and the factor
\* 1 + (i/n - 0.75) * 0.04 is 1 + (4i - 3n) / (100 n)
FatiguePace(i, n, raceDistanceKm, targetPace) ==
    IF raceDistanceKm >= 211 /\ 4 * i > 3 * n
    THEN targetPace + RoundDiv(targetPace * (4 * i - 3 * n), 100 * n)
    ELSE targetPace

\* lines 255-291: strategyNote
StrategyNote(i, n, raceDistanceKm, strategy) ==
    IF strategy = "negative"
    THEN IF 2 * i <= n THEN "Start conservative" ELSE "Push harder"
    ELSE IF strategy = "positive"
    THEN IF 2 * i <= n THEN "Fast start" ELSE "Maintain effort"
    ELSE IF raceDistanceKm >= 211 /\ 4 * i > 3 * n THEN "Manage fatigue"
    ELSE "Even pace"

\* lines 251-310: the split the loop pushes in iteration i, after the splits
\* built so far
PacingSplit(i, raceDistanceKm, predictedPace, strategy, built) ==
    LET n == SplitCount(raceDistanceKm)
        splitDistance == SplitDistance(i, raceDistanceKm)
        targetPace == FatiguePace(i, n, raceDistanceKm,
                                  StrategyPace(i, n, predictedPace, strategy))
        splitTime == RoundDiv(targetPace * splitDistance, 10)
        cumulativeDistance ==
            IF built = <<>> THEN 0 ELSE built[Len(built)].cumulativeDistance
        cumulativeTime ==
            IF built = <<>> THEN 0 ELSE built[Len(built)].cumulativeTime
    IN  [splitNumber |-> i,
         distance |-> splitDistance,
         targetPace |-> targetPace,
         targetTime |-> splitTime,
         cumulativeDistance |-> cumulativeDistance + splitDistance,
         cumulativeTime |-> cumulativeTime + splitTime,
         strategy |-> StrategyNote(i, n, raceDistanceKm, strategy)]

NoPacingArgs == [raceDistanceKm |-> 0, predictedPace |-> 0, strategy |-> "even"]

NoStrategy == [raceDistance |-> 0, targetTime |-> 0, averagePace |-> 0,
               strategy |-> "none", splits |-> <<>>]

\* one iteration of the split loop: lines 251-310
PushSplit ==
    /\ pacingStrategy = NoStrategy
    /\ pacingArgs # NoPacingArgs
    /\ Len(splits) < SplitCount(pacingArgs.raceDistanceKm)
    /\ splits' = Append(splits,
                    PacingSplit(Len(splits) + 1, pacingArgs.raceDistanceKm,
                                pacingArgs.predictedPace, pacingArgs.strategy,
                                splits))
    /\ UNCHANGED <<pacingArgs, pacingStrategy>>
    /\ UNCHANGED <<predVars, planVars, regenVars, metricsVars, fitnessVars, loadVars, historyVars>>

\* the loop ends and the strategy is returned: lines 243, 338-345
ReturnStrategy ==
    /\ pacingStrategy = NoStrategy
    /\ pacingArgs # NoPacingArgs
    /\ Len(splits) >= SplitCount(pacingArgs.raceDistanceKm)
    /\ pacingStrategy' =
            [raceDistance |-> pacingArgs.raceDistanceKm,
             targetTime |-> pacingArgs.predictedPace * 100 * pacingArgs.raceDistanceKm,
             averagePace |-> pacingArgs.predictedPace,
             strategy |-> pacingArgs.strategy,
             splits |-> splits]
    /\ UNCHANGED <<pacingArgs, splits>>
    /\ UNCHANGED <<predVars, planVars, regenVars, metricsVars, fitnessVars, loadVars, historyVars>>

PacingNext == PushSplit \/ ReturnStrategy

----------------------------------------------------------------------------
(* Regeneration gate: shouldRegeneratePlan (training-plan.ts 705-713), the *)
(* page's fetchAndGeneratePlan (part_009 63-119) and the GET and POST      *)
(* handlers of api/training-plan (route.ts).  Dates are UTC day numbers:   *)
(* generatedDate is the date part of toISOString(), stored as that day's   *)
(* midnight and read back as its date part.  Each run of                   *)
(* fetchAndGeneratePlan and each handler is cut at its awaits.             *)

MaxClients == 2
MaxDay == 1
MaxRequests == 4

Clients == 1..MaxClients
Days == 0..MaxDay

\* lines 705-713
shouldRegeneratePlan(lastGeneratedDate, now) ==
    IF lastGeneratedDate = Null THEN TRUE ELSE now # lastGeneratedDate

\* the effect fires and a run of fetchAndGeneratePlan starts: part_009 63-73
FetchAndGeneratePlan(c) ==
    /\ clientPc[c] = "idle"
    /\ requests < MaxRequests
    /\ requests' = requests + 1
    /\ clientPc' = [clientPc EXCEPT ![c] = "get"]
    /\ UNCHANGED <<today, trainingPlans, existingPlan, generatedPlan, generations>>
    /\ UNCHANGED <<predVars, planVars, pacingVars, metricsVars, fitnessVars, loadVars, historyVars>>

\* GET /api/training-plan: the newest stored plan of the goal, route.ts 83-106
GetPlan(c) ==
    /\ clientPc[c] = "get"
    /\ existingPlan' = [existingPlan EXCEPT ![c] =
            IF trainingPlans = <<>> THEN Null
            ELSE trainingPlans[Len(trainingPlans)]]
    /\ clientPc' = [clientPc EXCEPT ![c] = "check"]
    /\ UNCHANGED <<today, trainingPlans, generatedPlan, generations, requests>>
    /\ UNCHANGED <<predVars, planVars, pacingVars, metricsVars, fitnessVars, loadVars, historyVars>>

\* the run reuses the plan it got or goes on to POST: part_009 74-82
CheckPlan(c) ==
    /\ clientPc[c] = "check"
    /\ clientPc' = [clientPc EXCEPT ![c] =
            IF existingPlan[c] # Null /\ ~shouldRegeneratePlan(existingPlan[c], today)
            THEN "idle" ELSE "post"]
    /\ UNCHANGED <<today, trainingPlans, existingPlan, generatedPlan, generations,
                   requests>>
    /\ UNCHANGED <<predVars, planVars, pacingVars, metricsVars, fitnessVars, loadVars, historyVars>>

\* POST /api/training-plan generates a plan: route.ts 148-192
PostGenerate(c) ==
    /\ clientPc[c] = "post"
    /\ generatedPlan' = [generatedPlan EXCEPT ![c] = today]
    /\ generations' = [generations EXCEPT ![today] = @ + 1]
    /\ clientPc' = [clientPc EXCEPT ![c] = "delete"]
    /\ UNCHANGED <<today, trainingPlans, existingPlan, requests>>
    /\ UNCHANGED <<predVars, planVars, pacingVars, metricsVars, fitnessVars, loadVars, historyVars>>

\* saveTrainingPlan deletes the goal's plans: route.ts 9-11
DeleteMany(c) ==
    /\ clientPc[c] = "delete"
    /\ trainingPlans' = <<>>
    /\ clientPc' = [clientPc EXCEPT ![c] = "create"]
    /\ UNCHANGED <<today, existingPlan, generatedPlan, generations, requests>>
    /\ UNCHANGED <<predVars, planVars, pacingVars, metricsVars, fitnessVars, loadVars, historyVars>>

\* saveTrainingPlan creates the new plan and POST answers: route.ts 14-54, 194-221
CreatePlan(c) ==
    /\ clientPc[c] = "create"
    /\ trainingPlans' = Append(trainingPlans, generatedPlan[c])
    /\ clientPc' = [clientPc EXCEPT ![c] = "idle"]
    /\ UNCHANGED <<today, existingPlan, generatedPlan, generations, requests>>
    /\ UNCHANGED <<predVars, planVars, pacingVars, metricsVars, fitnessVars, loadVars, historyVars>>

\* midnight UTC passes
NextDay ==
    /\ today < MaxDay
    /\ today' = today + 1
    /\ UNCHANGED <<trainingPlans, clientPc, existingPlan, generatedPlan, generations,
                   requests>>
    /\ UNCHANGED <<predVars, planVars, pacingVars, metricsVars, fitnessVars, loadVars, historyVars>>

RegenNext ==
    \/ \E c \in Clients :
        \/ FetchAndGeneratePlan(c)
        \/ GetPlan(c)
        \/ CheckPlan(c)
        \/ PostGenerate(c)
        \/ DeleteMany(c)
        \/ CreatePlan(c)
    \/ NextDay

----------------------------------------------------------------------------
(* Detailed metrics: calculateDetailedMetrics, training-plan.ts 83-186.    *)
(* Of the result the average pace (1/1000 min/km) and the pace zones       *)
(* (1/100000 min/km) are kept.                                             *)

\* most activities handed to a call
MaxMetricRuns == 2

\* activities of the caller's list: three of the last four weeks, one older
MetricRunKinds ==
    { [daysAgo |-> 2,  distance |-> 5000,  moving_time |-> 1500],
      [daysAgo |-> 9,  distance |-> 8000,  moving_time |-> 2880],
      [daysAgo |-> 20, distance |-> 3000,  moving_time |-> 780],
      [daysAgo |-> 40, distance |-> 10000, moving_time |-> 3300] }

\* avgPace of the caller's TrainingMetrics, 0 when it has none
AvgPaceInputs == {0, 4500, 5250, 6000, 7125}

\* lines 90-96: the activities of the last four weeks
RecentRuns(acts) == SelectSeq(acts, LAMBDA a : a.daysAgo <= 28)

\* lines 103-109: the mean pace of the recent runs, avgPace without any
RecentAvgPace(acts, avgPace) ==
    LET recentRuns == RecentRuns(acts)
    IN  IF Len(recentRuns) > 0
        THEN RoundDiv(SumSeq([i \in DOMAIN recentRuns |-> PaceOf(recentRuns[i])]),
                      Len(recentRuns))
        ELSE avgPace

\* mutant: the tempo zone ends 5% slower than the average, not 5% faster
PaceZonesSlowTempo(recentAvgPace) ==
    [easy |-> [min |-> recentAvgPace * 115, max |-> recentAvgPace * 130],
     tempo |-> [min |-> recentAvgPace * 90, max |-> recentAvgPace * 105],
     threshold |-> [min |-> recentAvgPace * 85, max |-> recentAvgPace * 90],
     interval |-> [min |-> recentAvgPace * 75, max |-> recentAvgPace * 85],
     long |-> [min |-> recentAvgPace * 110, max |-> recentAvgPace * 120]]

\* lines 154-173: paceZones
PaceZones(recentAvgPace) ==
    [easy |-> [min |-> recentAvgPace * 115, max |-> recentAvgPace * 130],
     tempo |-> [min |-> recentAvgPace * 90, max |-> recentAvgPace * 95],
     threshold |-> [min |-> recentAvgPace * 85, max |-> recentAvgPace * 90],
     interval |-> [min |-> recentAvgPace * 75, max |-> recentAvgPace * 85],
     long |-> [min |-> recentAvgPace * 110, max |-> recentAvgPace * 120]]

calculateDetailedMetrics(acts, avgPace) ==
    LET recentAvgPace == RecentAvgPace(acts, avgPace)
    IN  [avgPace |-> recentAvgPace, paceZones |-> PaceZones(recentAvgPace)]

NoMetricsArgs == [activities |-> <<>>, avgPace |-> Null]

NoDetailedMetrics == [avgPace |-> Null, paceZones |-> PaceZones(0)]

\* the call returns
ReturnDetailedMetrics ==
    /\ metricsArgs # NoMetricsArgs
    /\ detailedMetrics = NoDetailedMetrics
    /\ detailedMetrics' =
            calculateDetailedMetrics(metricsArgs.activities, metricsArgs.avgPace)
    /\ UNCHANGED metricsArgs
    /\ UNCHANGED <<predVars, planVars, pacingVars, regenVars, fitnessVars, loadVars, historyVars>>

MetricsNext == ReturnDetailedMetrics

----------------------------------------------------------------------------
(* Fitness assessment: src/src/lib/training-plan.ts, assessFitnessLevel.   *)
(* weeklyKilometers and avgLongRun are metres, consistencyScore and        *)
(* recentPaceImprovement hundredths of a percent, the score hundredths of  *)
(* a point.  A ratio x / targetDistance >= r is x >= r * targetDistance.   *)

\* lines 217-221: weekly volume relative to the race distance
WeeklyVolumePoints(weeklyKilometers, targetDistance) ==
    IF weeklyKilometers >= 250 * targetDistance THEN 4000
    ELSE IF weeklyKilometers >= 180 * targetDistance THEN 3000
    ELSE IF weeklyKilometers >= 120 * targetDistance THEN 2000
    ELSE 1000

\* lines 223-227: long run readiness
LongRunPoints(avgLongRun, targetDistance) ==
    IF avgLongRun >= 70 * targetDistance THEN 2500
    ELSE IF avgLongRun >= 50 * targetDistance THEN 1800
    ELSE IF avgLongRun >= 30 * targetDistance THEN 1000
    ELSE 500

\* lines 232-235: frequency bonus
RunFrequencyPoints(recentRunCount) ==
    IF recentRunCount >= 16 THEN 1500
    ELSE IF recentRunCount >= 12 THEN 1000
    ELSE IF recentRunCount >= 8 THEN 500
    ELSE 0

\* lines 206-238: the score
FitnessScore(metrics, raceDistance) ==
    LET targetDistance == RACE_DISTANCES[raceDistance]
    IN  WeeklyVolumePoints(metrics.weeklyKilometers, targetDistance)
        + LongRunPoints(metrics.avgLongRun, targetDistance)
        + metrics.consistencyScore \div 5
        + RunFrequencyPoints(metrics.recentRunCount)
        + Max(0 - 500, Min(1000, metrics.recentPaceImprovement))

assessFitnessLevelAbove(metrics, raceDistance) ==
    LET score == FitnessScore(metrics, raceDistance)
    IN  IF score > 7500 THEN "Advanced"
        ELSE IF score > 5000 THEN "Intermediate"
        ELSE "Beginner"

\* lines 240-243: the tier
assessFitnessLevel(metrics, raceDistance) ==
    LET score == FitnessScore(metrics, raceDistance)
    IN  IF score >= 7500 THEN "Advanced"
        ELSE IF score >= 5000 THEN "Intermediate"
        ELSE "Beginner"

FitnessVolumeInputs == {4000, 12500, 25000, 40000, 60000, 106000}
FitnessLongRunInputs == {1000, 3500, 8000, 16000, 30000}
ConsistencyInputs == {0, 2500, 5000, 10000}
RunCountInputs == {4, 8, 12, 16}
PaceImprovementInputs == {0 - 800, 0, 300, 1500}

FitnessMetricsInputs ==
    [weeklyKilometers : FitnessVolumeInputs, avgLongRun : FitnessLongRunInputs,
     consistencyScore : ConsistencyInputs, recentRunCount : RunCountInputs,
     recentPaceImprovement : PaceImprovementInputs]

NoFitnessArgs == [metrics |-> Null, raceDistance |-> Null]

NoFitness == "none"

\* line 569: generateTrainingPlan assesses the runner
AssessFitness ==
    /\ currentFitness = NoFitness
    /\ currentFitness' =
            assessFitnessLevel(fitnessArgs.metrics, fitnessArgs.raceDistance)
    /\ UNCHANGED fitnessArgs
    /\ UNCHANGED <<predVars, planVars, pacingVars, regenVars, metricsVars, loadVars, historyVars>>

\* a later call for the same race after the runner's metrics changed to m
Reassess(m) ==
    /\ currentFitness # NoFitness
    /\ fitnessArgs' = [fitnessArgs EXCEPT !.metrics = m]
    /\ currentFitness' = assessFitnessLevel(m, fitnessArgs.raceDistance)
    /\ UNCHANGED <<predVars, planVars, pacingVars, regenVars, metricsVars, loadVars, historyVars>>

\* the weekly volume alone is higher
ReassessHigherVolume ==
    \E v \in FitnessVolumeInputs :
        /\ v > fitnessArgs.metrics.weeklyKilometers
        /\ Reassess([fitnessArgs.metrics EXCEPT !.weeklyKilometers = v])

\* the average long run alone is higher
ReassessLongerLongRun ==
    \E v \in FitnessLongRunInputs :
        /\ v > fitnessArgs.metrics.avgLongRun
        /\ Reassess([fitnessArgs.metrics EXCEPT !.avgLongRun = v])

\* the run count alone is higher
ReassessMoreRuns ==
    \E v \in RunCountInputs :
        /\ v > fitnessArgs.metrics.recentRunCount
        /\ Reassess([fitnessArgs.metrics EXCEPT !.recentRunCount = v])

\* the consistency score alone is higher
ReassessHigherConsistency ==
    \E v \in ConsistencyInputs :
        /\ v > fitnessArgs.metrics.consistencyScore
        /\ Reassess([fitnessArgs.metrics EXCEPT !.consistencyScore = v])

\* the pace improvement alone changed
ReassessOtherPaceImprovement ==
    \E v \in PaceImprovementInputs :
        /\ v # fitnessArgs.metrics.recentPaceImprovement
        /\ Reassess([fitnessArgs.metrics EXCEPT !.recentPaceImprovement = v])

FitnessNext ==
    \/ AssessFitness
    \/ ReassessHigherVolume
    \/ ReassessLongerLongRun
    \/ ReassessMoreRuns
    \/ ReassessHigherConsistency
    \/ ReassessOtherPaceImprovement

----------------------------------------------------------------------------

(* Historical series: src/src/app/api/gear/route.ts,                       *)
(* calculateHistoricalPredictions on a first call (nothing cached).  A     *)
(* cutoff date is carried as its number of weeks before now; times are in  *)
(* 1/1000 min.                                                             *)

\* lines 151-154: the time of an available prediction within its bounds
PointValue(p, lo, hi) ==
    IF p.available /\ p.time # Null /\ p.time # 0 /\ p.time > lo /\ p.time < hi
    THEN p.time ELSE Null

\* lines 149-155: the predictions of a data point
PointPredictions(p) ==
    [_5K |-> PointValue(p._5K, 10000, 60000),
     _10K |-> PointValue(p._10K, 20000, 120000),
     halfMarathon |-> PointValue(p.halfMarathon, 60000, 300000),
     marathon |-> PointValue(p.marathon, 120000, 600000)]

\* lines 136-140: the activities of the 24 weeks before the cutoff
ActivitiesAtTime(acts, weeks) ==
    SelectSeq(acts, LAMBDA a :
        a.daysAgo >= weeks * 7 /\ a.daysAgo <= weeks * 7 + WindowDays)

\* lines 122-129: weeks between now and the oldest activity, at most 52
MaxWeeksBack(acts) ==
    IF Len(acts) = 0 THEN 0
    ELSE Min(52, acts[Len(acts)].daysAgo \div 7)

\* lines 185-188: the times of one distance that are not null, ascending
ValidTimes(data, distance) ==
    SortSeq(SelectSeq([i \in 1..Len(data) |-> data[i].predictions[distance]],
                      LAMBDA t : t # Null),
            LAMBDA a, b : a < b)

\* lines 190-209: a time outside q1 - 1.5 iqr .. q3 + 1.5 iqr becomes null
FilteredTime(data, distance, time) ==
    LET times == ValidTimes(data, distance)
    IN  IF Len(times) < 3 \/ time = Null THEN time
        ELSE
        LET q1 == times[(Len(times) \div 4) + 1]
            q3 == times[((3 * Len(times)) \div 4) + 1]
            iqr == q3 - q1
        IN  IF 2 * time < 2 * q1 - 3 * iqr \/ 2 * time > 2 * q3 + 3 * iqr
            THEN Null ELSE time

\* lines 178-213
filterOutliers(data) ==
    IF Len(data) < 3 THEN data
    ELSE [i \in 1..Len(data) |->
            [data[i] EXCEPT !.predictions =
                [k \in DistanceKeys |-> FilteredTime(data, k, data[i].predictions[k])]]]

Reverse(s) == [i \in 1..Len(s) |-> s[Len(s) + 1 - i]]

\* lines 145-157: calculateRacePredictions measures ages from now
DataPoint(acts, weeks) ==
    LET activitiesAtTime == ActivitiesAtTime(acts, weeks)
    IN  [weeks |-> weeks,
         predictions |-> PointPredictions(calculateRacePredictions(activitiesAtTime))]

\* The synced runs: groups of equal runs 10 and 40 days old and 270 and 300
\* days (38 and 42 weeks) old
HistoryRunKinds ==
    << [type |-> "Run", daysAgo |-> 10,  tod |-> 0, distance |-> 5000,  moving_time |-> 1500],
       [type |-> "Run", daysAgo |-> 40,  tod |-> 0, distance |-> 10000, moving_time |-> 3300],
       [type |-> "Run", daysAgo |-> 270, tod |-> 0, distance |-> 5000,  moving_time |-> 1600],
       [type |-> "Run", daysAgo |-> 300, tod |-> 0, distance |-> 10000, moving_time |-> 3400] >>

\* sizes of the groups
GroupSizes == {0, 5, 10}

\* orderBy: { startDate: 'desc' }: the groups from the newest to the oldest
HistoryActivities(n) ==
    [i \in 1..n[1] |-> HistoryRunKinds[1]] \o [i \in 1..n[2] |-> HistoryRunKinds[2]]
        \o [i \in 1..n[3] |-> HistoryRunKinds[3]] \o [i \in 1..n[4] |-> HistoryRunKinds[4]]

\* lines 132-158: one pass of the loop over the cutoffs
HistoryStep ==
    /\ historyPc = "loop"
    /\ historyWeeks <= MaxWeeksBack(historyActs)
    /\ rawData' = IF Len(ActivitiesAtTime(historyActs, historyWeeks)) >= 10
                  THEN Append(rawData, DataPoint(historyActs, historyWeeks))
                  ELSE rawData
    /\ historyWeeks' = historyWeeks + 2
    /\ UNCHANGED <<historyActs, historyPc, historicalPredictions>>
    /\ UNCHANGED <<predVars, planVars, pacingVars, regenVars, metricsVars, fitnessVars, loadVars>>

\* lines 160-172: the loop is over, the filtered series is returned
ReturnHistory ==
    /\ historyPc = "loop"
    /\ historyWeeks > MaxWeeksBack(historyActs)
    /\ historicalPredictions' = Reverse(filterOutliers(rawData))
    /\ historyPc' = "done"
    /\ UNCHANGED <<historyActs, historyWeeks, rawData>>
    /\ UNCHANGED <<predVars, planVars, pacingVars, regenVars, metricsVars, fitnessVars, loadVars>>

HistoryNext == HistoryStep \/ ReturnHistory

----------------------------------------------------------------------------

(* Specifications.  Each studies one component; the others rest. *)

\* the predictor: no activity synced yet
PredictInit ==
    /\ activities = <<>>
    /\ predictions = calculateRacePredictions(<<>>)
    /\ raceGoal = NoGoal
    /\ trainingMetrics = NoMetrics
    /\ plan = <<>>
    /\ planPc = "idle"
    /\ pacingArgs = NoPacingArgs
    /\ splits = <<>>
    /\ pacingStrategy = NoStrategy
    /\ today = 0
    /\ trainingPlans = <<>>
    /\ clientPc = [c \in Clients |-> "idle"]
    /\ existingPlan = [c \in Clients |-> Null]
    /\ generatedPlan = [c \in Clients |-> Null]
    /\ generations = [d \in Days |-> 0]
    /\ requests = 0
    /\ metricsArgs = NoMetricsArgs
    /\ detailedMetrics = NoDetailedMetrics
    /\ fitnessArgs = NoFitnessArgs
    /\ currentFitness = NoFitness
    /\ lastTrainingLoad = NoTrainingLoad
    /\ historyActs = <<>>
    /\ historyPc = "idle"
    /\ historyWeeks = 0
    /\ rawData = <<>>
    /\ historicalPredictions = <<>>

Spec == PredictInit /\ [][PredictNext]_vars

\* the predictor on runs around the similarity windows: no activity synced yet
SimilarInit ==
    /\ activities = <<>>
    /\ predictions = calculateRacePredictions(<<>>)
    /\ raceGoal = NoGoal
    /\ trainingMetrics = NoMetrics
    /\ plan = <<>>
    /\ planPc = "idle"
    /\ pacingArgs = NoPacingArgs
    /\ splits = <<>>
    /\ pacingStrategy = NoStrategy
    /\ today = 0
    /\ trainingPlans = <<>>
    /\ clientPc = [c \in Clients |-> "idle"]
    /\ existingPlan = [c \in Clients |-> Null]
    /\ generatedPlan = [c \in Clients |-> Null]
    /\ generations = [d \in Days |-> 0]
    /\ requests = 0
    /\ metricsArgs = NoMetricsArgs
    /\ detailedMetrics = NoDetailedMetrics
    /\ fitnessArgs = NoFitnessArgs
    /\ currentFitness = NoFitness
    /\ lastTrainingLoad = NoTrainingLoad
    /\ historyActs = <<>>
    /\ historyPc = "idle"
    /\ historyWeeks = 0
    /\ rawData = <<>>
    /\ historicalPredictions = <<>>

SpecSimilar == SimilarInit /\ [][SimilarNext]_vars

\* the plan generator: generateTrainingPlan is called, lines 563-597
PlanInit ==
    /\ activities = <<>>
    /\ predictions = calculateRacePredictions(<<>>)
    /\ raceGoal \in
            {RaceGoalOf(g.distance, g.runsPerWeek, g.trainingDays, 0, g.weeks * 14 - 2) :
                g \in [distance : {"5K", "10K", "Half Marathon", "Marathon"},
                       runsPerWeek : 2..7,
                       trainingDays : TrainingDayInputs,
                       weeks : 0..MaxWeeks]}
    /\ trainingMetrics \in [weeklyKilometers : WeeklyKilometerInputs]
    /\ plan = <<>>
    /\ planPc = "loop"
    /\ pacingArgs = NoPacingArgs
    /\ splits = <<>>
    /\ pacingStrategy = NoStrategy
    /\ today = 0
    /\ trainingPlans = <<>>
    /\ clientPc = [c \in Clients |-> "idle"]
    /\ existingPlan = [c \in Clients |-> Null]
    /\ generatedPlan = [c \in Clients |-> Null]
    /\ generations = [d \in Days |-> 0]
    /\ requests = 0
    /\ metricsArgs = NoMetricsArgs
    /\ detailedMetrics = NoDetailedMetrics
    /\ fitnessArgs = NoFitnessArgs
    /\ currentFitness = NoFitness
    /\ lastTrainingLoad = NoTrainingLoad
    /\ historyActs = <<>>
    /\ historyPc = "idle"
    /\ historyWeeks = 0
    /\ rawData = <<>>
    /\ historicalPredictions = <<>>

SpecPlan == PlanInit /\ [][PlanNext]_vars

\* the plan generator on goals of many dates: generateTrainingPlan is called
ScheduleInit ==
    /\ activities = <<>>
    /\ predictions = calculateRacePredictions(<<>>)
    /\ raceGoal \in
            {RaceGoalOf("10K", r, <<>>, s, d) :
                r \in {3, 6}, s \in StartDateInputs, d \in 0..MaxRaceDate}
    /\ trainingMetrics = [weeklyKilometers |-> 23700]
    /\ plan = <<>>
    /\ planPc = "loop"
    /\ pacingArgs = NoPacingArgs
    /\ splits = <<>>
    /\ pacingStrategy = NoStrategy
    /\ today = 0
    /\ trainingPlans = <<>>
    /\ clientPc = [c \in Clients |-> "idle"]
    /\ existingPlan = [c \in Clients |-> Null]
    /\ generatedPlan = [c \in Clients |-> Null]
    /\ generations = [d \in Days |-> 0]
    /\ requests = 0
    /\ metricsArgs = NoMetricsArgs
    /\ detailedMetrics = NoDetailedMetrics
    /\ fitnessArgs = NoFitnessArgs
    /\ currentFitness = NoFitness
    /\ lastTrainingLoad = NoTrainingLoad
    /\ historyActs = <<>>
    /\ historyPc = "idle"
    /\ historyWeeks = 0
    /\ rawData = <<>>
    /\ historicalPredictions = <<>>

SpecSchedule == ScheduleInit /\ [][PlanNext]_vars

\* the pacing generator: generatePacingStrategy is called, lines 239-249
PacingInit ==
    /\ activities = <<>>
    /\ predictions = calculateRacePredictions(<<>>)
    /\ raceGoal = NoGoal
    /\ trainingMetrics = NoMetrics
    /\ plan = <<>>
    /\ planPc = "idle"
    /\ pacingArgs \in [raceDistanceKm : RaceDistanceKmInputs,
                       predictedPace : PredictedPaceInputs,
                       strategy : Strategies]
    /\ splits = <<>>
    /\ pacingStrategy = NoStrategy
    /\ today = 0
    /\ trainingPlans = <<>>
    /\ clientPc = [c \in Clients |-> "idle"]
    /\ existingPlan = [c \in Clients |-> Null]
    /\ generatedPlan = [c \in Clients |-> Null]
    /\ generations = [d \in Days |-> 0]
    /\ requests = 0
    /\ metricsArgs = NoMetricsArgs
    /\ detailedMetrics = NoDetailedMetrics
    /\ fitnessArgs = NoFitnessArgs
    /\ currentFitness = NoFitness
    /\ lastTrainingLoad = NoTrainingLoad
    /\ historyActs = <<>>
    /\ historyPc = "idle"
    /\ historyWeeks = 0
    /\ rawData = <<>>
    /\ historicalPredictions = <<>>

SpecPacing == PacingInit /\ [][PacingNext]_vars

\* the regeneration gate: a goal is set and no plan is stored for it
RegenInit ==
    /\ activities = <<>>
    /\ predictions = calculateRacePredictions(<<>>)
    /\ raceGoal = NoGoal
    /\ trainingMetrics = NoMetrics
    /\ plan = <<>>
    /\ planPc = "idle"
    /\ pacingArgs = NoPacingArgs
    /\ splits = <<>>
    /\ pacingStrategy = NoStrategy
    /\ today = 0
    /\ trainingPlans = <<>>
    /\ clientPc = [c \in Clients |-> "idle"]
    /\ existingPlan = [c \in Clients |-> Null]
    /\ generatedPlan = [c \in Clients |-> Null]
    /\ generations = [d \in Days |-> 0]
    /\ requests = 0
    /\ metricsArgs = NoMetricsArgs
    /\ detailedMetrics = NoDetailedMetrics
    /\ fitnessArgs = NoFitnessArgs
    /\ currentFitness = NoFitness
    /\ lastTrainingLoad = NoTrainingLoad
    /\ historyActs = <<>>
    /\ historyPc = "idle"
    /\ historyWeeks = 0
    /\ rawData = <<>>
    /\ historicalPredictions = <<>>

SpecRegen == RegenInit /\ [][RegenNext]_vars

\* the detailed metrics: calculateDetailedMetrics is called, lines 83-89
MetricsInit ==
    /\ activities = <<>>
    /\ predictions = calculateRacePredictions(<<>>)
    /\ raceGoal = NoGoal
    /\ trainingMetrics = NoMetrics
    /\ plan = <<>>
    /\ planPc = "idle"
    /\ pacingArgs = NoPacingArgs
    /\ splits = <<>>
    /\ pacingStrategy = NoStrategy
    /\ today = 0
    /\ trainingPlans = <<>>
    /\ clientPc = [c \in Clients |-> "idle"]
    /\ existingPlan = [c \in Clients |-> Null]
    /\ generatedPlan = [c \in Clients |-> Null]
    /\ generations = [d \in Days |-> 0]
    /\ requests = 0
    /\ metricsArgs \in
            [activities : UNION {[1..n -> MetricRunKinds] : n \in 0..MaxMetricRuns},
             avgPace : AvgPaceInputs]
    /\ detailedMetrics = NoDetailedMetrics
    /\ fitnessArgs = NoFitnessArgs
    /\ currentFitness = NoFitness
    /\ lastTrainingLoad = NoTrainingLoad
    /\ historyActs = <<>>
    /\ historyPc = "idle"
    /\ historyWeeks = 0
    /\ rawData = <<>>
    /\ historicalPredictions = <<>>

SpecMetrics == MetricsInit /\ [][MetricsNext]_vars

\* the fitness assessment: assessFitnessLevel is called, lines 202-205
FitnessInit ==
    /\ activities = <<>>
    /\ predictions = calculateRacePredictions(<<>>)
    /\ raceGoal = NoGoal
    /\ trainingMetrics = NoMetrics
    /\ plan = <<>>
    /\ planPc = "idle"
    /\ pacingArgs = NoPacingArgs
    /\ splits = <<>>
    /\ pacingStrategy = NoStrategy
    /\ today = 0
    /\ trainingPlans = <<>>
    /\ clientPc = [c \in Clients |-> "idle"]
    /\ existingPlan = [c \in Clients |-> Null]
    /\ generatedPlan = [c \in Clients |-> Null]
    /\ generations = [d \in Days |-> 0]
    /\ requests = 0
    /\ metricsArgs = NoMetricsArgs
    /\ detailedMetrics = NoDetailedMetrics
    /\ fitnessArgs \in
            [metrics : FitnessMetricsInputs, raceDistance : DOMAIN RACE_DISTANCES]
    /\ currentFitness = NoFitness
    /\ lastTrainingLoad = NoTrainingLoad
    /\ historyActs = <<>>
    /\ historyPc = "idle"
    /\ historyWeeks = 0
    /\ rawData = <<>>
    /\ historicalPredictions = <<>>

SpecFitness == FitnessInit /\ [][FitnessNext]_vars

\* the historical series: calculateHistoricalPredictions is called, lines 118-119
HistoryInit ==
    /\ activities = <<>>
    /\ predictions = calculateRacePredictions(<<>>)
    /\ raceGoal = NoGoal
    /\ trainingMetrics = NoMetrics
    /\ plan = <<>>
    /\ planPc = "idle"
    /\ pacingArgs = NoPacingArgs
    /\ splits = <<>>
    /\ pacingStrategy = NoStrategy
    /\ today = 0
    /\ trainingPlans = <<>>
    /\ clientPc = [c \in Clients |-> "idle"]
    /\ existingPlan = [c \in Clients |-> Null]
    /\ generatedPlan = [c \in Clients |-> Null]
    /\ generations = [d \in Days |-> 0]
    /\ requests = 0
    /\ metricsArgs = NoMetricsArgs
    /\ detailedMetrics = NoDetailedMetrics
    /\ fitnessArgs = NoFitnessArgs
    /\ currentFitness = NoFitness
    /\ lastTrainingLoad = NoTrainingLoad
    /\ historyActs \in {HistoryActivities(n) : n \in [1..4 -> GroupSizes]}
    /\ historyPc = "loop"
    /\ historyWeeks = 0
    /\ rawData = <<>>
    /\ historicalPredictions = <<>>

SpecHistory == HistoryInit /\ [][HistoryNext]_vars

----------------------------------------------------------------------------
(* Predictor: properties *)

\* the runs the specification calls qualifying, counted from the input list
QualifyingCount ==
    Cardinality({i \in DOMAIN activities :
                    activities[i].type = "Run" /\ activities[i].daysAgo <= 24 * 7})

\* the run-count threshold the specification gives each distance
ClaimThreshold == [_5K |-> 5, _10K |-> 10, halfMarathon |-> 20, marathon |-> 20]

\* C1: a prediction is available only if the number of qualifying runs is at
\* least the threshold of its distance (5, 10, 20, 20).
C1_AvailableOnlyAtThreshold ==
    \A k \in DistanceKeys :
        predictions[k].available => QualifyingCount >= ClaimThreshold[k]

\* no run of the list lies in the similarity window of target (tenths of a
\* km) and no run is valid for extrapolation
NoPaceDerivable(target) ==
    \A i \in DOMAIN activities :
        LET a == activities[i]
        IN  (a.type = "Run" /\ a.daysAgo <= 24 * 7) =>
                /\ ~ (a.moving_time > 0
                        /\ a.distance >= getSimilarDistanceRange(target).min
                        /\ a.distance <= getSimilarDistanceRange(target).max)
                /\ ~ (a.distance > 1000 /\ a.distance < 50000 /\ a.moving_time > 0
                        /\ a.moving_time * 20 > 3 * a.distance
                        /\ a.moving_time * 25 < 18 * a.distance)

\* C2: an available prediction has an empty reason and a time and a pace;
\* a distance for which no pace can be derived is unavailable, whatever the
\* run count.
C2_AvailableIsComplete ==
    \A k \in DistanceKeys :
        /\ predictions[k].available =>
                /\ predictions[k].reason = ""
                /\ predictions[k].time # Null
                /\ predictions[k].pace # Null
        /\ NoPaceDerivable(RaceTenths[k]) => ~ predictions[k].available

\* C3: with fewer than 5 qualifying runs all four predictions are
\* unavailable, without time and pace, and carry the same reason, which
\* states that at least 5 runs in the last 24 weeks are needed.
C3_FewerThanFiveRuns ==
    QualifyingCount < 5 =>
        \A k \in DistanceKeys :
            /\ predictions[k].available = FALSE
            /\ predictions[k].time = Null
            /\ predictions[k].pace = Null
            /\ predictions[k].reason =
                "Need at least 5 runs in the last 24 weeks. Currently have "
                    \o NumStr[QualifyingCount + 1] \o "."

\* C3 witness: a list of five or more activities of which four qualify
C3_Witness ==
    /\ QualifyingCount = 4
    /\ Len(activities) >= 5
    /\ predictions._5K.available = FALSE

\* C4: a distance that is available stays available when runs are added,
\* and whenever 5K is unavailable so are 10K, half marathon and marathon.
C4_MonotoneAvailability ==
    /\ [](~ predictions._5K.available =>
            \A k \in DistanceKeys : ~ predictions[k].available)
    /\ [][\A k \in DistanceKeys :
            predictions[k].available => predictions'[k].available]_predVars

\* C4 witness: runs were added past the 10K threshold; 10K is available
\* while the marathon still is not
C4_Witness ==
    /\ Len(activities) >= 10
    /\ predictions._10K.available
    /\ ~ predictions.marathon.available

----------------------------------------------------------------------------
(* Plan generator: properties *)

\* sum of the distance fields of a week's workouts, a missing one counting 0
WorkoutDistanceSum(week) ==
    LET dist(d) == IF week.workouts[d].distance = Null THEN 0
                   ELSE week.workouts[d].distance
    IN  dist(1) + dist(2) + dist(3) + dist(4) + dist(5) + dist(6) + dist(7)

\* C5: in every week of every plan, recovery, taper and race weeks
\* included, totalKilometers is the sum of the distances of the week's 7
\* workouts (a missing distance counting as 0).
C5_TotalIsSumOfWorkouts ==
    \A i \in DOMAIN plan :
        /\ Len(plan[i].workouts) = 7
        /\ plan[i].totalKilometers = WorkoutDistanceSum(plan[i])

\* C5 witness: a finished plan with a recovery week and a race week whose
\* total differs from the nominal volume of the week
C5_Witness ==
    /\ planPc = "done"
    /\ \E i \in DOMAIN plan : plan[i].focus = "Recovery Week"
    /\ Len(plan) >= 1
    /\ plan[Len(plan)].totalKilometers # plan[Len(plan)].weeklyKilometers

\* the distance caps the specification gives, in tenths of a km
ClaimCap == [d \in {"5K", "10K", "Half Marathon", "Marathon"} |->
                CASE d = "5K" -> 450 [] d = "10K" -> 650
                  [] d = "Half Marathon" -> 850 [] d = "Marathon" -> 1100]

\* C6: every week n >= 2 that is neither a recovery week nor a taper week
\* has an actual total of at most 1.10 times the previous week's actual
\* total and of at most the cap of the race distance.  The 10% bound is
\* stated with the rounding of a total to one decimal allowed for (half a
\* tenth of a km, 5 in hundredths).
C6_ProgressionCeiling ==
    \A n \in DOMAIN plan :
        (n >= 2 /\ plan[n].focus # "Recovery Week" /\ plan[n].phase # "taper") =>
            /\ plan[n].totalKilometers * 10 <= plan[n - 1].totalKilometers * 11 + 5
            /\ plan[n].totalKilometers <= ClaimCap[raceGoal.distance]

\* the canonical race distances, in tenths of a km
ClaimRaceDistance == [d \in {"5K", "10K", "Half Marathon", "Marathon"} |->
                        CASE d = "5K" -> 50 [] d = "10K" -> 100
                          [] d = "Half Marathon" -> 211 [] d = "Marathon" -> 422]

RaceDayWorkouts(week) == {d \in 1..7 : week.workouts[d].type = "Race Day"}

\* C7: the final week of a plan holds exactly one Race Day workout, of the
\* canonical race distance and of intensity High, and no earlier week holds
\* a Race Day workout.
C7_RaceDayInFinalWeek ==
    \A i \in DOMAIN plan :
        IF i = raceGoal.weeksUntilRace
        THEN /\ Cardinality(RaceDayWorkouts(plan[i])) = 1
             /\ \A d \in RaceDayWorkouts(plan[i]) :
                    /\ plan[i].workouts[d].distance = ClaimRaceDistance[raceGoal.distance]
                    /\ plan[i].workouts[d].intensity = "High"
        ELSE RaceDayWorkouts(plan[i]) = {}

\* C7 witness: a finished plan of several weeks
C7_Witness ==
    /\ planPc = "done"
    /\ Len(plan) >= 3
    /\ Len(plan) = raceGoal.weeksUntilRace

\* the long-run day of the goal's run-day list, as an index of workouts
ClaimLongRunDay ==
    LET runDays == IF Len(raceGoal.trainingDays) > 0 THEN raceGoal.trainingDays
                   ELSE CASE raceGoal.runsPerWeek = 2 -> <<2, 6>>
                          [] raceGoal.runsPerWeek = 3 -> <<1, 4, 6>>
                          [] raceGoal.runsPerWeek = 4 -> <<1, 2, 5, 6>>
                          [] raceGoal.runsPerWeek = 5 -> <<1, 2, 3, 5, 6>>
                          [] raceGoal.runsPerWeek = 6 -> <<1, 2, 3, 4, 5, 6>>
                          [] OTHER -> <<0, 1, 2, 3, 4, 5, 6>>
    IN  runDays[Len(runDays)] + 1

----------------------------------------------------------------------------
(* Regeneration gate and pacing generator: properties *)

\* C9: a race goal's training plan is generated at most once per calendar
\* day, however many runs of fetchAndGeneratePlan ask for it and however
\* they overlap: once a plan dated today is stored, no run generates again.
C9_AtMostOncePerDay ==
    \A d \in Days : generations[d] <= 1

\* C10: for every strategy and race distance, the target times of the
\* returned splits add up to the strategy's targetTime (predictedPace times
\* raceDistanceKm), up to rounding: at most half a second (8333 millionths
\* of a minute) for each split.
C10_SplitTimesSumToTarget ==
    pacingStrategy # NoStrategy =>
        LET total == SumSeq([i \in DOMAIN pacingStrategy.splits |->
                                pacingStrategy.splits[i].targetTime])
            slack == 8333 * Len(pacingStrategy.splits)
        IN  /\ total <= pacingStrategy.targetTime + slack
            /\ pacingStrategy.targetTime <= total + slack

\* the pace the specification gives split i of n before the fatigue
\* multiplier, in 1/1000000 min/km
ClaimStrategyPace(i, n, p, s) ==
    CASE s = "even" -> p * 1000
      [] s = "negative" -> IF 2 * i <= n THEN p * 1020 ELSE p * 980
      [] s = "positive" -> IF 2 * i <= n THEN p * 980 ELSE p * 1020

----------------------------------------------------------------------------
(* Plan generator: run days, volumes, phases and workout types *)

\* the run days the specification gives each weekly frequency, by name
ClaimRunDayNames ==
    [r \in 2..7 |->
        CASE r = 2 -> {"Wednesday", "Sunday"}
          [] r = 3 -> {"Tuesday", "Friday", "Sunday"}
          [] r = 4 -> {"Tuesday", "Wednesday", "Saturday", "Sunday"}
          [] r = 5 -> {"Monday", "Tuesday", "Wednesday", "Saturday", "Sunday"}
          [] r = 6 -> {"Monday", "Tuesday", "Wednesday", "Thursday", "Saturday",
                       "Sunday"}
          [] r = 7 -> {"Monday", "Tuesday", "Wednesday", "Thursday", "Friday",
                       "Saturday", "Sunday"}]

\* C12: without a custom training-day list the run days of every week are
\* those of the weekly frequency (2: Wed, Sun; 3: Tue, Fri, Sun; 4: Tue, Wed,
\* Sat, Sun; 5: Mon, Tue, Wed, Sat, Sun; 6: all but Friday; 7: all), and
\* every other day of the week is a Rest workout.
C12_RunDaysByFrequency ==
    raceGoal.trainingDays = <<>> =>
        \A i \in DOMAIN plan : \A d \in 1..7 :
            /\ plan[i].workouts[d].type # "Rest"
                 <=> plan[i].workouts[d].day \in ClaimRunDayNames[raceGoal.runsPerWeek]
            /\ (plan[i].workouts[d].type = "Rest"
                    => plan[i].workouts[d].distance = Null)

\* the base weekly volume of the goal in metres: the runner's weekly
\* distance, at least 12 km when below 10 km, at most 35/50/70/90 km
ClaimBase ==
    LET w == trainingMetrics.weeklyKilometers
        top == CASE raceGoal.distance = "5K" -> 35000
                 [] raceGoal.distance = "10K" -> 50000
                 [] raceGoal.distance = "Half Marathon" -> 70000
                 [] raceGoal.distance = "Marathon" -> 90000
    IN  Min(IF w < 10000 THEN 12000 ELSE w, top)

\* the number of run days of the goal's weeks
ClaimRunDayCount ==
    IF Len(raceGoal.trainingDays) > 0 THEN Len(raceGoal.trainingDays)
    ELSE raceGoal.runsPerWeek

\* C13 as stated: week 1's actual total is base x 0.80 and week 2's is
\* min(week 1's actual x 1.10, cap), to one decimal, outside the taper; for
\* the 16-week 10K goal on a 12 km base they are 9.6 km and 10.56 km (10.6
\* to one decimal) for every runs-per-week setting.
C13_ActualTotalsOfFirstWeeks ==
    /\ (Len(plan) >= 1 /\ plan[1].phase # "taper") =>
            plan[1].totalKilometers = RoundDiv(ClaimBase * 8, 1000)
    /\ (Len(plan) >= 2 /\ plan[2].phase # "taper") =>
            plan[2].totalKilometers =
                RoundDiv(Min(plan[1].totalKilometers * 110,
                             ClaimCap[raceGoal.distance] * 100), 100)
    /\ (/\ raceGoal.weeksUntilRace = 16 /\ raceGoal.distance = "10K"
        /\ ClaimBase = 12000 /\ Len(plan) >= 2) =>
            /\ plan[1].totalKilometers = 96
            /\ plan[2].totalKilometers = 106

\* C13 amended: outside the taper week 1's assigned volume is base x 0.80
\* and week 2's is min(week 1's actual total x 1.10, cap), each rounded to
\* one decimal; for the 16-week 10K goal on a 12 km base week 1's assigned
\* volume is 9.6 km for every runs-per-week setting; the actual total of
\* either week is the sum of its rounded workout distances and is within
\* 0.05 km for each run day of the assigned volume.
C13_AssignedVolumesOfFirstWeeks ==
    /\ (Len(plan) >= 1 /\ plan[1].phase # "taper") =>
            plan[1].weeklyKilometers = RoundDiv(ClaimBase * 8, 1000)
    /\ (Len(plan) >= 2 /\ plan[2].phase # "taper") =>
            plan[2].weeklyKilometers =
                RoundDiv(Min(plan[1].totalKilometers * 110,
                             ClaimCap[raceGoal.distance] * 100), 100)
    /\ (/\ raceGoal.weeksUntilRace = 16 /\ raceGoal.distance = "10K"
        /\ ClaimBase = 12000 /\ Len(plan) >= 1) =>
            plan[1].weeklyKilometers = 96
    /\ \A n \in DOMAIN plan :
            (n <= 2 /\ plan[n].phase # "taper") =>
                /\ 2 * (plan[n].totalKilometers - plan[n].weeklyKilometers)
                        <= ClaimRunDayCount
                /\ 2 * (plan[n].weeklyKilometers - plan[n].totalKilometers)
                        <= ClaimRunDayCount

\* C13 witness: the 16-week 10K plan on a 12 km base with 5 runs a week,
\* whose week 1 totals 9.8 km against 9.6 km assigned
C13_Witness ==
    /\ planPc = "done"
    /\ raceGoal.weeksUntilRace = 16
    /\ raceGoal.distance = "10K"
    /\ raceGoal.runsPerWeek = 5
    /\ raceGoal.trainingDays = <<>>
    /\ ClaimBase = 12000
    /\ plan[1].weeklyKilometers = 96
    /\ plan[1].totalKilometers = 98

----------------------------------------------------------------------------
(* Detailed metrics: properties *)

\* C14: for a positive recent average pace the zones are ordered by effort:
\* interval.min < interval.max <= threshold.min < threshold.max <= tempo.min
\* < tempo.max < recentAvgPace < easy.min < easy.max, and each of the five
\* zones, long included, has min < max.
C14_PaceZonesOrdered ==
    (detailedMetrics # NoDetailedMetrics /\ detailedMetrics.avgPace > 0) =>
        LET z == detailedMetrics.paceZones
            recentAvgPace == detailedMetrics.avgPace * 100
        IN  /\ z.interval.min < z.interval.max
            /\ z.interval.max <= z.threshold.min
            /\ z.threshold.min < z.threshold.max
            /\ z.threshold.max <= z.tempo.min
            /\ z.tempo.min < z.tempo.max
            /\ z.tempo.max < recentAvgPace
            /\ recentAvgPace < z.easy.min
            /\ z.easy.min < z.easy.max
            /\ z.long.min < z.long.max

\* C14 witness: zones computed from the mean pace of two recent runs
C14_Witness ==
    /\ detailedMetrics # NoDetailedMetrics
    /\ Len(RecentRuns(metricsArgs.activities)) = 2
    /\ detailedMetrics.avgPace > 0
    /\ detailedMetrics.avgPace # metricsArgs.avgPace
    /\ detailedMetrics.paceZones.easy.min > detailedMetrics.paceZones.tempo.max

----------------------------------------------------------------------------
(* Plan generator: recovery weeks, taper, phases and quality days *)

\* C16: a week is labelled 'Recovery Week' exactly when its number is
\* divisible by 4 and more than 3 weeks remain; its nominal volume is then
\* 0.85 times the previous week's actual total (to one decimal), and its
\* actual total is lower than the previous week's.
C16_RecoveryWeeks ==
    \A n \in DOMAIN plan :
        LET remaining == raceGoal.weeksUntilRace - n + 1
        IN  /\ plan[n].focus = "Recovery Week" <=> (n % 4 = 0 /\ remaining > 3)
            /\ plan[n].focus = "Recovery Week" =>
                /\ n >= 2
                /\ plan[n].weeklyKilometers * 100 - plan[n - 1].totalKilometers * 85 <= 50
                /\ plan[n - 1].totalKilometers * 85 - plan[n].weeklyKilometers * 100 <= 50
                /\ plan[n].totalKilometers < plan[n - 1].totalKilometers

\* C16 witness: a finished plan with recovery weeks 4 and 8, and a week 12
\* that has 3 weeks remaining and is none
C16_Witness ==
    /\ planPc = "done"
    /\ Len(plan) = 14
    /\ plan[4].focus = "Recovery Week"
    /\ plan[8].focus = "Recovery Week"
    /\ plan[12].focus # "Recovery Week"

\* C17: in a week labelled 'Recovery Week' all running is at easy pace: no
\* workout of the week is a Tempo Run or Intervals and none has intensity
\* High, whatever phase the week falls in.
C17_RecoveryWeekAllEasy ==
    \A n \in DOMAIN plan :
        plan[n].focus = "Recovery Week" =>
            \A d \in 1..7 :
                /\ plan[n].workouts[d].type \notin {"Tempo Run", "Intervals"}
                /\ plan[n].workouts[d].intensity # "High"

\* C18: in every plan of at least 3 weeks the second-to-last week has an
\* actual total lower than the week before it, and the final week has an
\* actual total lower than the second-to-last week's.
C18_TaperReducesVolume ==
    (planPc = "done" /\ Len(plan) >= 3) =>
        LET W == Len(plan)
        IN  /\ plan[W - 1].totalKilometers < plan[W - 2].totalKilometers
            /\ plan[W].totalKilometers < plan[W - 1].totalKilometers

\* the distance of the week's Race Day workout, 0 without one
RaceDayDistance(week) ==
    SumSeq([d \in 1..7 |-> IF week.workouts[d].type = "Race Day"
                           THEN week.workouts[d].distance ELSE 0])

\* C18 amended: in every plan of at least 3 weeks the second-to-last week
\* has an actual total lower than the week before it; the final week's
\* assigned volume (base x 0.5) is lower than the second-to-last week's
\* (base x 0.7), and its actual total less the distance of the Race Day
\* workout is lower than the second-to-last week's actual total.
C18_TaperReducesTraining ==
    (planPc = "done" /\ Len(plan) >= 3) =>
        LET W == Len(plan)
        IN  /\ plan[W - 1].totalKilometers < plan[W - 2].totalKilometers
            /\ plan[W].weeklyKilometers < plan[W - 1].weeklyKilometers
            /\ plan[W].weeklyKilometers = RoundDiv(ClaimBase * 5, 1000)
            /\ plan[W - 1].weeklyKilometers = RoundDiv(ClaimBase * 7, 1000)
            /\ plan[W].totalKilometers - RaceDayDistance(plan[W])
                    < plan[W - 1].totalKilometers

\* C18 witness: a finished marathon plan whose final week, race included,
\* totals more than its second-to-last week
C18_Witness ==
    /\ planPc = "done"
    /\ Len(plan) >= 3
    /\ raceGoal.distance = "Marathon"
    /\ RaceDayDistance(plan[Len(plan)]) = 422
    /\ plan[Len(plan)].totalKilometers > plan[Len(plan) - 1].totalKilometers

\* the place of a phase in the order base, build, peak, taper
PhaseRank == [p \in {"base", "build", "peak", "taper"} |->
                CASE p = "base" -> 0 [] p = "build" -> 1
                  [] p = "peak" -> 2 [] p = "taper" -> 3]

\* C19: across the weeks of a plan the phase never moves backward in the
\* order base, build, peak, taper; the last two weeks are taper; a week is
\* peak only if its weeks remaining is at most ceil(0.3 W) and build only if
\* at most ceil(0.6 W).
C19_PhaseOrder ==
    LET W == raceGoal.weeksUntilRace
    IN  \A n \in DOMAIN plan :
            LET remaining == W - n + 1
            IN  /\ n >= 2 => PhaseRank[plan[n - 1].phase] <= PhaseRank[plan[n].phase]
                /\ remaining <= 2 => plan[n].phase = "taper"
                /\ plan[n].phase = "peak" => remaining * 10 < 3 * W + 10
                /\ plan[n].phase = "build" => remaining * 10 < 6 * W + 10

\* C19 witness: a finished plan that passes through all four phases
C19_Witness ==
    /\ planPc = "done"
    /\ Len(plan) >= 8
    /\ {plan[n].phase : n \in DOMAIN plan} = {"base", "build", "peak", "taper"}
    /\ plan[Len(plan) - 1].phase = "taper"

\* the workouts of a week that have the given type
WorkoutsOfType(week, type) == {d \in 1..7 : week.workouts[d].type = type}

\* the part of C20 that does not depend on the repetition length: Tempo Run
\* (High) workouts occur only in build-phase weeks and Intervals (High) only
\* in peak-phase weeks, base and taper weeks have neither and no High
\* workout but the race; a build week has 1 or 2 Tempo Runs and a peak week
\* 1 or 2 Intervals when the run-day list has as many days as runsPerWeek.
ClaimQualityByPhase ==
    \A n \in DOMAIN plan :
        LET tempo == WorkoutsOfType(plan[n], "Tempo Run")
            intervals == WorkoutsOfType(plan[n], "Intervals")
        IN  /\ tempo # {} => plan[n].phase = "build"
            /\ intervals # {} => plan[n].phase = "peak"
            /\ \A d \in tempo \cup intervals : plan[n].workouts[d].intensity = "High"
            /\ plan[n].phase \in {"base", "taper"} =>
                    \A d \in 1..7 :
                        plan[n].workouts[d].intensity = "High"
                            => plan[n].workouts[d].type = "Race Day"
            /\ ClaimRunDayCount = raceGoal.runsPerWeek =>
                    /\ plan[n].phase = "build" => Cardinality(tempo) \in {1, 2}
                    /\ plan[n].phase = "peak" => Cardinality(intervals) \in {1, 2}

\* C20 as stated: the quality workout follows the phase, and Intervals have
\* 800 m repetitions when the race distance is below 10 km and 1 km
\* repetitions otherwise.
C20_QualityWorkouts ==
    /\ ClaimQualityByPhase
    /\ \A n \in DOMAIN plan : \A d \in WorkoutsOfType(plan[n], "Intervals") :
            plan[n].workouts[d].intervalDistance =
                IF ClaimRaceDistance[raceGoal.distance] < 100 THEN "800m" ELSE "1km"

\* C20 amended: the quality workout follows the phase, and Intervals have
\* 800 m repetitions when the race distance is at most 10 km (5K and 10K)
\* and 1 km repetitions otherwise.
C20_QualityWorkoutsUpTo10K ==
    /\ ClaimQualityByPhase
    /\ \A n \in DOMAIN plan : \A d \in WorkoutsOfType(plan[n], "Intervals") :
            plan[n].workouts[d].intervalDistance =
                IF ClaimRaceDistance[raceGoal.distance] <= 100 THEN "800m" ELSE "1km"

\* C20 witness: a finished 10K plan on 4 custom days with two Tempo Runs in
\* a build week and two Intervals workouts of 800 m repetitions in a peak week
C20_Witness ==
    /\ planPc = "done"
    /\ raceGoal.distance = "10K"
    /\ raceGoal.trainingDays = <<0, 2, 4, 6>>
    /\ raceGoal.runsPerWeek = 4
    /\ \E n \in DOMAIN plan :
            /\ plan[n].phase = "build"
            /\ Cardinality(WorkoutsOfType(plan[n], "Tempo Run")) = 2
    /\ \E n \in DOMAIN plan :
            /\ plan[n].phase = "peak"
            /\ Cardinality(WorkoutsOfType(plan[n], "Intervals")) = 2
            /\ \A d \in WorkoutsOfType(plan[n], "Intervals") :
                    plan[n].workouts[d].intervalDistance = "800m"

----------------------------------------------------------------------------
(* Plan generator: base volume, long run *)

\* the ceilings the specification gives the base volume, in metres
ClaimCeiling == [d \in {"5K", "10K", "Half Marathon", "Marathon"} |->
                    CASE d = "5K" -> 35000 [] d = "10K" -> 50000
                      [] d = "Half Marathon" -> 70000 [] d = "Marathon" -> 90000]

----------------------------------------------------------------------------
(* Fitness assessment: properties *)

\* the score of the claim's table, hundredths of a point
ClaimFitnessScore ==
    LET m == fitnessArgs.metrics
        km == RACE_DISTANCES[fitnessArgs.raceDistance]
        volume == CASE m.weeklyKilometers * 10 >= 25 * km * 100 -> 40
                    [] m.weeklyKilometers * 10 >= 18 * km * 100 -> 30
                    [] m.weeklyKilometers * 10 >= 12 * km * 100 -> 20
                    [] OTHER -> 10
        longRun == CASE m.avgLongRun * 10 >= 7 * km * 100 -> 25
                     [] m.avgLongRun * 10 >= 5 * km * 100 -> 18
                     [] m.avgLongRun * 10 >= 3 * km * 100 -> 10
                     [] OTHER -> 5
        frequency == CASE m.recentRunCount >= 16 -> 15
                       [] m.recentRunCount >= 12 -> 10
                       [] m.recentRunCount >= 8 -> 5
                       [] OTHER -> 0
        improvement == IF m.recentPaceImprovement < 0 - 500 THEN 0 - 500
                       ELSE IF m.recentPaceImprovement > 1000 THEN 1000
                       ELSE m.recentPaceImprovement
    IN  (volume + longRun + frequency) * 100
        + (m.consistencyScore * 20) \div 100 + improvement

TierRank(tier) ==
    CASE tier = "Beginner" -> 1 [] tier = "Intermediate" -> 2 [] tier = "Advanced" -> 3

\* C22: the tier assessFitnessLevel returns is the one of the scoring table
\* (Advanced from 75 points, Intermediate from 50, else Beginner), and a
\* call with a higher weekly volume, long run, run count or consistency
\* score alone never returns a lower tier than the call before
C22_FitnessTier ==
    /\ [](currentFitness # NoFitness =>
            currentFitness = (IF ClaimFitnessScore >= 7500 THEN "Advanced"
                              ELSE IF ClaimFitnessScore >= 5000 THEN "Intermediate"
                              ELSE "Beginner"))
    /\ [][(/\ currentFitness # NoFitness
           /\ fitnessArgs'.raceDistance = fitnessArgs.raceDistance
           /\ fitnessArgs'.metrics.recentPaceImprovement
                = fitnessArgs.metrics.recentPaceImprovement
           /\ fitnessArgs'.metrics.weeklyKilometers >= fitnessArgs.metrics.weeklyKilometers
           /\ fitnessArgs'.metrics.avgLongRun >= fitnessArgs.metrics.avgLongRun
           /\ fitnessArgs'.metrics.recentRunCount >= fitnessArgs.metrics.recentRunCount
           /\ fitnessArgs'.metrics.consistencyScore >= fitnessArgs.metrics.consistencyScore)
            => TierRank(currentFitness') >= TierRank(currentFitness)]_vars

\* a runner scoring exactly 75 points is assessed Advanced
C22_Witness ==
    /\ currentFitness = "Advanced"
    /\ ClaimFitnessScore = 7500

----------------------------------------------------------------------------
(* Predictor: similar runs, training frequency *)

\* the similarity window of the claim in metres, target in tenths of a km
ClaimWindow(target) ==
    LET percent == IF target <= 50 THEN 20 ELSE IF target <= 100 THEN 30
                   ELSE IF target <= 211 THEN 40 ELSE 50
    IN  [lo |-> target * (100 - percent), hi |-> target * (100 + percent)]

\* paces of the recent runs with moving time inside the window of target
ClaimWindowPaces(target) ==
    LET recent == RecentActivities(activities)
    IN  {PaceOf(recent[i]) : i \in {j \in 1..Len(recent) :
            /\ recent[j].moving_time > 0
            /\ recent[j].distance >= ClaimWindow(target).lo
            /\ recent[j].distance <= ClaimWindow(target).hi}}

\* the pace the claim predicts for target from its raw pace
ClaimPredictedPace(target) ==
    LET recent == RecentActivities(activities)
        paces == ClaimWindowPaces(target)
        raw == IF paces # {} THEN CHOOSE p \in paces : \A q \in paces : p <= q
               ELSE estimatePaceFromTraining(recent, target)
    IN  IF raw = Null THEN Null ELSE AdjustedPace(raw, analyzeTrainingLoad(recent))

\* C23: once predictions are computed, each distance's pace is the adjusted
\* lowest pace of the runs with moving time inside its similarity window
\* (bounds included) if there is one, and the adjusted extrapolated pace
\* otherwise
C23_SimilarRunsFirst ==
    Len(RecentActivities(activities)) >= minRuns5K =>
        /\ predictions._5K.pace = ClaimPredictedPace(50)
        /\ predictions._10K.pace = ClaimPredictedPace(100)
        /\ predictions.halfMarathon.pace = ClaimPredictedPace(211)
        /\ predictions.marathon.pace = ClaimPredictedPace(422)

\* a history of 5 km runs only: the 5K pace is direct, the half marathon
\* and marathon paces are extrapolated
C23_Witness ==
    /\ Len(activities) >= minRuns5K
    /\ \A i \in 1..Len(activities) :
            activities[i].distance = 5000 /\ activities[i].moving_time > 0
    /\ ClaimWindowPaces(50) # {}
    /\ ClaimWindowPaces(211) = {} /\ ClaimWindowPaces(422) = {}
    /\ predictions._5K.pace # Null
    /\ predictions.halfMarathon.pace > predictions._5K.pace
    /\ predictions.marathon.pace > predictions.halfMarathon.pace

\* the calendar weeks (by their Sunday) holding a run of the trailing 28 days
ClaimWeeksWithRuns ==
    LET recent == RecentActivities(activities)
    IN  {(NowDay - recent[i].daysAgo) - ((NowDay - recent[i].daysAgo) % 7) :
            i \in {j \in 1..Len(recent) : recent[j].daysAgo <= 28}}

\* C24: the training frequency (in quarters) is one of 0, 1/4, 2/4, 3/4 and
\* 4/4, and it counts each calendar week holding a run once, whatever the
\* number of its runs and their times of day
C24_TrainingFrequency ==
    lastTrainingLoad # NoTrainingLoad =>
        /\ lastTrainingLoad.trainingFrequency \in 0..4
        /\ lastTrainingLoad.trainingFrequency = Cardinality(ClaimWeeksWithRuns)

----------------------------------------------------------------------------
(* Historical series: properties *)

\* the data point of the claim: the prediction is made at the cutoff date,
\* so the ages of the runs are counted from it
ClaimDataPoint(acts, weeks) ==
    LET activitiesAtTime == ActivitiesAtTime(acts, weeks)
        seen == [i \in 1..Len(activitiesAtTime) |->
                    [activitiesAtTime[i] EXCEPT !.daysAgo = @ - weeks * 7]]
    IN  [weeks |-> weeks, predictions |-> PointPredictions(calculateRacePredictions(seen))]

\* C25: every data point of the series carries the predictions that
\* calculateRacePredictions returns at the point's cutoff date from the runs
\* of the 24 weeks before it
C25_PointInTimePredictions ==
    \A i \in 1..Len(rawData) :
        rawData[i].predictions
            = ClaimDataPoint(historyActs, rawData[i].weeks).predictions

----------------------------------------------------------------------------
(* Plan generator: dates, weeks and days *)

\* C26: for a race date after the start date the returned plan has a last
\* week, and the race date lies in the seven days from that week's start,
\* start date + 7 (W - 1) days included, start date + 7 W days excluded
C26_RaceDateInFinalWeek ==
    (planPc = "done" /\ raceGoal.date > raceGoal.startDate) =>
        /\ Len(plan) = raceGoal.weeksUntilRace
        /\ Len(plan) >= 1
        /\ raceGoal.date >= raceGoal.startDate + 14 * (plan[Len(plan)].weekNumber - 1)
        /\ raceGoal.date < raceGoal.startDate + 14 * plan[Len(plan)].weekNumber

\* C27: for a race date after the start date the returned plan has W >= 1
\* weeks, W the weeks until the race, numbered 1 to W, week n starts 7 (n - 1)
\* days after the day of the start date, and each week has the seven
\* workouts of Monday to Sunday in this order
C27_WeeksAndDays ==
    (planPc = "done" /\ raceGoal.date > raceGoal.startDate) =>
        /\ Len(plan) = CeilDiv(CeilDiv(raceGoal.date - raceGoal.startDate, 2), 7)
        /\ Len(plan) >= 1
        /\ \A n \in 1..Len(plan) :
            /\ plan[n].weekNumber = n
            /\ plan[n].weekStartDate = (raceGoal.startDate \div 2) + 7 * (n - 1)
            /\ Len(plan[n].workouts) = 7
            /\ [d \in 1..7 |-> plan[n].workouts[d].day]
                = <<"Monday", "Tuesday", "Wednesday", "Thursday", "Friday",
                    "Saturday", "Sunday">>

\* a returned plan of four weeks for a goal that starts at noon
C27_Witness ==
    /\ planPc = "done"
    /\ raceGoal.startDate = 1
    /\ raceGoal.date > raceGoal.startDate
    /\ Len(plan) = 4
    /\ plan[4].weekStartDate = 21

----------------------------------------------------------------------------
(* Pacing generator: splits *)

\* C28: the returned strategy for a distance d (tenths of a km) has ceil(d)
\* splits numbered from 1; the splits up to floor(d) are 1 km long and a last
\* fractional split is d mod 1 long; cumulativeDistance and cumulativeTime
\* are the running sums of the distances and target times, both strictly
\* increasing, and the last cumulativeDistance is d
C28_SplitsCoverDistance ==
    pacingStrategy # NoStrategy =>
        LET d == pacingStrategy.raceDistance
            s == pacingStrategy.splits
        IN  /\ Len(s) = (d + 9) \div 10
            /\ \A i \in 1..Len(s) :
                /\ s[i].splitNumber = i
                /\ s[i].distance = (IF i * 10 <= d THEN 10 ELSE d - (i - 1) * 10)
                /\ s[i].cumulativeDistance = SumSeq([j \in 1..i |-> s[j].distance])
                /\ s[i].cumulativeTime = SumSeq([j \in 1..i |-> s[j].targetTime])
                /\ i > 1 => /\ s[i].cumulativeDistance > s[i - 1].cumulativeDistance
                            /\ s[i].cumulativeTime > s[i - 1].cumulativeTime
                /\ s[i].cumulativeDistance > 0 /\ s[i].cumulativeTime > 0
            /\ s[Len(s)].cumulativeDistance = d

\* a returned half marathon strategy: 21 whole splits and one of 0.1 km
C28_Witness ==
    /\ pacingStrategy # NoStrategy
    /\ pacingStrategy.raceDistance = 211
    /\ Len(pacingStrategy.splits) = 22
    /\ pacingStrategy.splits[21].distance = 10
    /\ pacingStrategy.splits[22].distance = 1
    /\ pacingStrategy.splits[22].cumulativeDistance = 211

----------------------------------------------------------------------------
(* Plan generator: the long run *)

\* C29: a week before the race week of a goal with two or more run days has
\* exactly one Long Run, on the last day of the run-day list, its distance
\* is 35% of the week's volume to one decimal, and no workout of the week
\* is longer
C29_LongRunIsLongest ==
    \A n \in DOMAIN plan :
        (n # raceGoal.weeksUntilRace /\ ClaimRunDayCount >= 2) =>
            /\ WorkoutsOfType(plan[n], "Long Run") = {ClaimLongRunDay}
            /\ LET long == plan[n].workouts[ClaimLongRunDay].distance
               IN  /\ long * 100 - plan[n].weeklyKilometers * 35 \in (0 - 50)..50
                   /\ \A d \in 1..7 : DistanceOrZero(plan[n].workouts[d]) <= long

----------------------------------------------------------------------------
(* Regeneration gate: stored plans *)

\* C30: whenever every saveTrainingPlan call made so far has completed (no
\* run stands before its delete or between its delete and its create) and
\* there was one, the goal has exactly one stored plan
C30_OneStoredPlan ==
    (/\ \A c \in Clients : clientPc[c] \notin {"delete", "create"}
     /\ \E d \in Days : generations[d] > 0)
        => Len(trainingPlans) = 1

====
